---------------------------- MODULE Spec2Model ----------------------------
(***************************************************************************)
(* A model of tweetsave-mcp: fetchTweet and the formatting helpers of       *)
(* twitter/client.ts, the renderers of utils/formatter.ts, the five tools   *)
(* of tools.ts, and the request handler of http-server.ts.                  *)
(*                                                                         *)
(* Strings.  A JavaScript string is modelled as a sequence of atoms.  An    *)
(* atom is a TLA+ string that stands for a piece of the text: a single      *)
(* character (every character of a tweet text, every whitespace character)  *)
(* or a literal chunk of a template.  Concatenation is \o, the empty string *)
(* is <<>>, and .length is Len for texts made of single characters.         *)
(***************************************************************************)
EXTENDS Integers, Sequences, FiniteSets, TLC

VARIABLES
    num, numStr,            \* formatNumber: argument and returned string
    tweet, md,              \* tweetToMarkdown: argument and returned string
    replies, opts,          \* tweetToBlogPost: the other arguments
    blog, blogMd,           \* the Blog Post returned, and its blogPostToMarkdown
    text, title,            \* generateTitle: argument and returned record
    pc, urls, fmt, i,       \* tweetsave_batch: handler position, params, loop index
    inflight, started,      \* fetches awaiting an answer; fetches begun, in order
    requests, outcomes,     \* upstream GETs issued; how each fetch begun was settled
    results, out,           \* the handler's results array and its returned value
    feedTweets, feed,       \* tweetsToFeed: argument and returned string
    toolPc, params, toolOut,\* a single-item tool: handler position, params, returned value
    transports, sse,        \* http-server: the transports map; each GET /sse handler
    postReq, restReq        \* the POST /messages and the /api/tweet/ request in progress

numVars == <<num, numStr>>
tweetVars == <<tweet, md>>
blogVars == <<replies, opts, blog, blogMd>>
titleVars == <<text, title>>
batchVars == <<pc, urls, fmt, i, inflight, started, requests, outcomes, results, out>>
feedVars == <<feedTweets, feed>>
toolVars == <<toolPc, params, toolOut>>
httpVars == <<transports, sse, postReq, restReq>>
vars == <<num, numStr, tweet, md, replies, opts, blog, blogMd, text, title,
          pc, urls, fmt, i, inflight, started, requests, outcomes, results, out,
          feedTweets, feed, toolPc, params, toolOut, transports, sse,
          postReq, restReq>>

\* An optional value (a field that may be undefined, a result not yet
\* returned) is a sequence of length 0 or 1.
None == <<>>
Some(v) == <<v>>
IsSome(o) == o # <<>>
Val(o) == o[1]

-----------------------------------------------------------------------------
(* Characters and generic string helpers *)

Space == {" ", "\n", "\t"}

\* \w of a JavaScript regular expression
WordChar ==
    {"a","b","c","d","e","f","g","h","i","j","k","l","m","n","o","p","q","r",
     "s","t","u","v","w","x","y","z","A","B","C","D","E","F","G","H","I","J",
     "K","L","M","N","O","P","Q","R","S","T","U","V","W","X","Y","Z",
     "0","1","2","3","4","5","6","7","8","9","_"}

Min(S) == CHOOSE x \in S : \A y \in S : x <= y
Max(S) == CHOOSE x \in S : \A y \in S : x >= y

\* the subsequence of s at the positions of K, in order
Keep(s, K) ==
    LET idx == [k \in 1..Len(s) |-> k]
        kept == SelectSeq(idx, LAMBDA k : k \in K)
    IN  [j \in 1..Len(kept) |-> s[kept[j]]]

\* String.prototype.slice(0, n) for n >= 0
Slice0(s, n) == SubSeq(s, 1, IF n < Len(s) THEN n ELSE Len(s))

\* the first position at or after p whose character satisfies Test
\* (Len(s) + 1 when there is none)
FirstAt(s, p, Test(_)) ==
    CHOOSE k \in p..(Len(s) + 1) :
        /\ k = Len(s) + 1 \/ Test(s[k])
        /\ \A m \in p..(k - 1) : ~Test(s[m])

\* the last position whose character satisfies Test (0 when there is none)
LastAt(s, Test(_)) ==
    CHOOSE k \in 0..Len(s) :
        /\ k = 0 \/ Test(s[k])
        /\ \A m \in (k + 1)..Len(s) : ~Test(s[m])

\* String.prototype.trim()
Trim(s) ==
    SubSeq(s, FirstAt(s, 1, LAMBDA c : c \notin Space), LastAt(s, LAMBDA c : c \notin Space))

\* s.includes(a) for a single atom a
Has(s, a) == \E k \in 1..Len(s) : s[k] = a

RECURSIVE Concat(_)
\* the concatenation of a sequence of strings
Concat(ss) == IF ss = <<>> THEN <<>> ELSE Head(ss) \o Concat(Tail(ss))

RECURSIVE Join(_, _)
\* Array.prototype.join(sep)
Join(ss, sep) ==
    IF ss = <<>> THEN <<>>
    ELSE IF Len(ss) = 1 THEN ss[1]
    ELSE ss[1] \o sep \o Join(Tail(ss), sep)

\* String.prototype.split("\n"): the pieces between newline atoms
SplitLines(s) ==
    LET nl == {k \in 1..Len(s) : s[k] = "\n"}
        cuts == [j \in 1..(Cardinality(nl) + 2) |->
                    IF j = 1 THEN 0
                    ELSE IF j = Cardinality(nl) + 2 THEN Len(s) + 1
                    ELSE CHOOSE k \in nl : Cardinality({m \in nl : m < k}) = j - 2]
    IN  [j \in 1..(Cardinality(nl) + 1) |-> SubSeq(s, cuts[j] + 1, cuts[j + 1] - 1)]

\* String.prototype.split(/\s+/).length: one piece more than there are
\* maximal runs of whitespace (a leading or trailing run leaves an empty piece)
SplitWsCount(s) ==
    Cardinality({k \in 1..Len(s) : s[k] \in Space /\ (k = 1 \/ s[k - 1] \notin Space)}) + 1

-----------------------------------------------------------------------------
(* twitter/client.ts: formatNumber, formatDate, buildTweetUrl *)

Digit(d) == CASE d = 0 -> "0" [] d = 1 -> "1" [] d = 2 -> "2" [] d = 3 -> "3"
              [] d = 4 -> "4" [] d = 5 -> "5" [] d = 6 -> "6" [] d = 7 -> "7"
              [] d = 8 -> "8" [] d = 9 -> "9"

RECURSIVE NumToString(_)
\* Number.prototype.toString() of a non-negative integer
NumToString(n) ==
    IF n < 10 THEN <<Digit(n)>> ELSE NumToString(n \div 10) \o <<Digit(n % 10)>>

RECURSIVE Log2(_)
\* floor(log2(k)) for k >= 1
Log2(k) == IF k < 2 THEN 0 ELSE 1 + Log2(k \div 2)

RECURSIVE ShiftMod(_, _, _)
\* (r * 2^s) mod d
ShiftMod(r, s, d) == IF s = 0 THEN r % d ELSE ShiftMod((2 * r) % d, s - 1, d)

\* The sign of double(n / d) - n / d for integers n >= d: IEEE-754 division
\* rounds the quotient to 53 significant bits, i.e. to the nearest multiple of
\* 2^-s with s = 52 - floor(log2(n / d)); the remainder of n * 2^s by d tells
\* on which side of the exact quotient the double lies.
DivError(n, d) ==
    LET r == ShiftMod(n % d, 52 - Log2(n \div d), d)
    IN  IF r = 0 THEN 0 ELSE IF 2 * r < d THEN -1 ELSE 1

\* (n / d).toFixed(1): the integer t for which t / 10 is nearest the double
\* n / d, the larger t when two are equally near (ECMAScript Number.prototype.toFixed)
ToFixed1Tenths(n, d) ==
    LET lo == (10 * n) \div d
        rem == (10 * n) % d
    IN  IF 2 * rem > d THEN lo + 1
        ELSE IF 2 * rem < d THEN lo
        ELSE IF DivError(n, d) >= 0 THEN lo + 1 ELSE lo

ToFixed1(n, d) ==
    LET t == ToFixed1Tenths(n, d)
    IN  NumToString(t \div 10) \o <<".", Digit(t % 10)>>

\* .replace(/\.0$/, "")
StripDotZero(s) ==
    IF Len(s) >= 2 /\ s[Len(s) - 1] = "." /\ s[Len(s)] = "0"
    THEN SubSeq(s, 1, Len(s) - 2) ELSE s

Million == 1000000
Thousand == 1000

\* a mutation of formatNumber: the thresholds compared with > instead of >=
formatNumberStrict(n) ==
    IF n > Million THEN StripDotZero(ToFixed1(n, Million)) \o <<"M">>
    ELSE IF n > Thousand THEN StripDotZero(ToFixed1(n, Thousand)) \o <<"K">>
    ELSE NumToString(n)

formatNumber(n) ==
    IF n >= Million THEN StripDotZero(ToFixed1(n, Million)) \o <<"M">>
    ELSE IF n >= Thousand THEN StripDotZero(ToFixed1(n, Thousand)) \o <<"K">>
    ELSE NumToString(n)

\* buildTweetUrl(tweetId, username)
buildTweetUrl(tweetId, username) == <<"https://x.com/", username, "/status/", tweetId>>

MonthName(m) ==
    CASE m = 1 -> "January" [] m = 2 -> "February" [] m = 3 -> "March"
      [] m = 4 -> "April" [] m = 5 -> "May" [] m = 6 -> "June" [] m = 7 -> "July"
      [] m = 8 -> "August" [] m = 9 -> "September" [] m = 10 -> "October"
      [] m = 11 -> "November" [] m = 12 -> "December"

TwoDigit(n) == IF n < 10 THEN <<"0", Digit(n)>> ELSE NumToString(n)

\* A created_at string is modelled by its content: a timestamp, with the
\* local-time fields of the instant it denotes, or a string that is no
\* timestamp ("not-a-date", "").
Timestamp(y, mo, d, h, mi) ==
    [timestamp |-> TRUE, year |-> y, month |-> mo, day |-> d, hour |-> h, minute |-> mi]
Malformed ==
    [timestamp |-> FALSE, year |-> 0, month |-> 0, day |-> 0, hour |-> 0, minute |-> 0]

\* new Date(dateStr): the time value, NaN (ok = FALSE) when the string does not parse
NewDate(dateStr) ==
    [ok |-> dateStr.timestamp, year |-> dateStr.year, month |-> dateStr.month,
     day |-> dateStr.day, hour |-> dateStr.hour, minute |-> dateStr.minute]

\* Date.prototype.toLocaleDateString("en-US", {year: "numeric", month: "long",
\* day: "numeric", hour: "2-digit", minute: "2-digit"}); a NaN time value
\* yields the string "Invalid Date" (ECMA-402), it does not throw.
toLocaleDateString(date) ==
    IF ~date.ok THEN <<"Invalid Date">>
    ELSE <<MonthName(date.month), " ">> \o NumToString(date.day) \o <<",", " ">>
         \o NumToString(date.year) \o <<" at ">>
         \o TwoDigit(IF date.hour % 12 = 0 THEN 12 ELSE date.hour % 12)
         \o <<":">> \o TwoDigit(date.minute)
         \o <<" ", IF date.hour < 12 THEN "AM" ELSE "PM">>

\* formatDate(dateStr)
formatDate(dateStr) == toLocaleDateString(NewDate(dateStr))

-----------------------------------------------------------------------------
(* utils/formatter.ts: tweetToMarkdown *)

\* JavaScript truthiness of an optional number and of an optional sequence
TruthyNum(o) == IsSome(o) /\ Val(o) # 0
NonEmptyList(o) == IsSome(o) /\ Len(Val(o)) > 0

\* Math.round(a / b) for integers a >= 0, b > 0 (halves round up)
RoundDiv(a, b) == (2 * a + b) \div (2 * b)

\* "=".repeat(n)
Repeat(a, n) == [k \in 1..n |-> a]

\* `${option.percentage}`: percentage is carried in tenths of a percent
PercentToString(p10) ==
    NumToString(p10 \div 10) \o (IF p10 % 10 = 0 THEN <<>> ELSE <<".", Digit(p10 % 10)>>)

\* lines 25-36: the lines of one media item
MediaLines(media) ==
    IF media.type = "photo" THEN << <<"![Image](", media.url, ")">> >>
    ELSE IF media.type = "video" THEN
        << <<"- [Video](", media.url, ") (">>
           \o (IF TruthyNum(media.duration_ms)
                THEN NumToString(RoundDiv(Val(media.duration_ms), 1000)) \o <<"s">>
                ELSE <<>>)
           \o <<")">> >>
        \o (IF IsSome(media.thumbnail_url)
            THEN << <<"  ![Thumbnail](", Val(media.thumbnail_url), ")">> >>
            ELSE <<>>)
    ELSE IF media.type = "animated_gif" THEN << <<"- [GIF](", media.url, ")">> >>
    ELSE <<>>

\* a mutation of MediaSection: the blank line after the section left out
MediaSectionNoBlank(t) ==
    IF NonEmptyList(t.media)
    THEN << <<"### Media">> >>
         \o Concat([k \in 1..Len(Val(t.media)) |-> MediaLines(Val(t.media)[k])])
    ELSE <<>>

\* lines 22-38
MediaSection(t) ==
    IF NonEmptyList(t.media)
    THEN << <<"### Media">> >>
         \o Concat([k \in 1..Len(Val(t.media)) |-> MediaLines(Val(t.media)[k])])
         \o << <<>> >>
    ELSE <<>>

\* a mutation of PollOptionLines: the bar length taken with Math.floor
PollOptionLinesFloor(option) ==
    << <<"- ", option.label, ": ">> \o PercentToString(option.percentage)
       \o <<"% (">> \o formatNumber(option.votes) \o <<" votes)">>,
       <<"  [">> \o Repeat("=", option.percentage \div 50) \o <<"]">> >>

\* lines 43-47: the two lines of one poll option
PollOptionLines(option) ==
    << <<"- ", option.label, ": ">> \o PercentToString(option.percentage)
       \o <<"% (">> \o formatNumber(option.votes) \o <<" votes)">>,
       <<"  [">> \o Repeat("=", RoundDiv(option.percentage, 50)) \o <<"]">> >>

\* lines 40-50
PollSection(t) ==
    IF IsSome(t.poll)
    THEN << <<"### Poll">> >>
         \o Concat([k \in 1..Len(Val(t.poll).options) |->
                        PollOptionLines(Val(t.poll).options[k])])
         \o << <<"Total votes: ">> \o formatNumber(Val(t.poll).total_votes)
                \o <<" | Status: ", Val(t.poll).voting_status>> >>
         \o << <<>> >>
    ELSE <<>>

\* lines 52-57
QuoteSection(t) ==
    IF IsSome(t.quoted_tweet)
    THEN << <<"### Quoted Tweet">>,
            <<"> **@", Val(t.quoted_tweet).username, "**: ">>
               \o Join(SplitLines(Val(t.quoted_tweet).text), <<"\n", "> ">>),
            <<>> >>
    ELSE <<>>

\* lines 63-70: the lines of one link preview
LinkLines(url) ==
    IF IsSome(url.title)
    THEN << <<"- [", Val(url.title), "](", url.expanded_url, ")">> >>
         \o (IF IsSome(url.description) /\ Val(url.description) # <<>>
             THEN << <<"  ">> \o Slice0(Val(url.description), 100) \o <<"...">> >>
             ELSE <<>>)
    ELSE << <<"- [", url.display_url, "](", url.expanded_url, ")">> >>

\* lines 59-73
LinksSection(t) ==
    IF NonEmptyList(t.urls)
    THEN << <<"### Links">> >>
         \o Concat([k \in 1..Len(Val(t.urls)) |-> LinkLines(Val(t.urls)[k])])
         \o << <<>> >>
    ELSE <<>>

\* lines 75-78
EngagementLines(t) ==
    << <<"---">>,
       <<"**Engagement**: ">> \o formatNumber(t.likes) \o <<" likes | ">>
          \o formatNumber(t.retweets) \o <<" retweets | ">>
          \o formatNumber(t.replies) \o <<" replies">>
          \o (IF TruthyNum(t.views)
              THEN <<" | ">> \o formatNumber(Val(t.views)) \o <<" views">>
              ELSE <<>>),
       <<>> >>

\* lines 80-85
MetadataLines(t) ==
    << <<"**Posted**: ">> \o formatDate(t.created_at) >>
    \o (IF NonEmptyList(t.hashtags)
        THEN << <<"**Hashtags**: ">>
                \o Join([k \in 1..Len(Val(t.hashtags)) |-> <<"#", Val(t.hashtags)[k]>>],
                        <<" ">>) >>
        ELSE <<>>)
    \o << <<"**Source**: ">> \o buildTweetUrl(t.id, t.username) >>

\* lines 14-20
HeadLines(t) == << <<"## @", t.username, " (", t.name, ")">>, <<>>, t.text, <<>> >>

\* a mutation of MarkdownLines: the poll pushed before the media
MarkdownLinesPollFirst(t) ==
    HeadLines(t) \o PollSection(t) \o MediaSection(t) \o QuoteSection(t)
    \o LinksSection(t) \o EngagementLines(t) \o MetadataLines(t)

\* the lines array of tweetToMarkdown at its return
MarkdownLines(t) ==
    HeadLines(t) \o MediaSection(t) \o PollSection(t) \o QuoteSection(t)
    \o LinksSection(t) \o EngagementLines(t) \o MetadataLines(t)

\* tweetToMarkdown(tweet): lines.join("\n")
tweetToMarkdown(t) == Join(MarkdownLines(t), <<"\n">>)

-----------------------------------------------------------------------------
(* utils/formatter.ts: generateTitle *)

\* /https?:\/\/\S+/ matches at position j of s
UrlAt(s, j) ==
    \E o \in {0, 1} :
        /\ j + 7 + o <= Len(s)
        /\ SubSeq(s, j, j + 3) = <<"h", "t", "t", "p">>
        /\ (o = 1 => s[j + 4] = "s")
        /\ SubSeq(s, j + 4 + o, j + 6 + o) = <<":", "/", "/">>
        /\ s[j + 7 + o] \notin Space

\* line 289, text.replace(/https?:\/\/\S+/g, ""): a match runs to the end of
\* its run of non-whitespace, so a character is removed iff a match starts
\* at or before it within its run
RemoveUrls(s) ==
    LET starts == {j \in 1..Len(s) : UrlAt(s, j)}
    IN  Keep(s, {k \in 1..Len(s) :
                    ~\E j \in starts : j <= k /\ \A m \in j..k : s[m] \notin Space})

\* the first position at or after p whose character is not in the class C
\* (Len(s) + 1 when there is none)
SkipWhile(s, p, C) == FirstAt(s, p, LAMBDA c : c \notin C)

RECURSIVE MentionRunEnd(_, _)
\* /^(@\w+\s*)+/: the end of the longest run of groups @\w+\s* that starts
\* at position p; p - 1 when no group starts there
MentionRunEnd(s, p) ==
    IF p + 1 <= Len(s) /\ s[p] = "@" /\ s[p + 1] \in WordChar
    THEN MentionRunEnd(s, SkipWhile(s, SkipWhile(s, p + 1, WordChar), Space))
    ELSE p - 1

\* line 292, cleaned.replace(/^(@\w+\s*)+/, "")
RemoveLeadingMentions(s) == SubSeq(s, MentionRunEnd(s, 1) + 1, Len(s))

\* line 295, cleaned.replace(/#\w+/g, ""): a # followed by a word character,
\* and the word characters that follow it
RemoveHashtags(s) ==
    LET hashes == {j \in 1..(Len(s) - 1) : s[j] = "#" /\ s[j + 1] \in WordChar}
        tagged(k) == \E j \in hashes : j < k /\ \A m \in (j + 1)..k : s[m] \in WordChar
    IN  Keep(s, {k \in 1..Len(s) : ~(k \in hashes \/ tagged(k))})

\* .replace(/\s+/g, " "): each run of whitespace becomes one space
CollapseSpace(s) ==
    LET kept == Keep(s, {k \in 1..Len(s) :
                            s[k] \notin Space \/ k = 1 \/ s[k - 1] \notin Space})
    IN  [k \in 1..Len(kept) |-> IF kept[k] \in Space THEN " " ELSE kept[k]]

\* lines 288-298: the cleaned text
CleanTitleText(s) == CollapseSpace(Trim(RemoveHashtags(RemoveLeadingMentions(RemoveUrls(s)))))

Terminator == {".", "!", "?"}

\* line 306, cleaned.match(/^[^.!?]+[.!?]?/): None when the text starts with a
\* terminator (or is empty), else the text up to and including the first one
FirstSentence(c) ==
    LET stop == FirstAt(c, 1, LAMBDA x : x \in Terminator)
    IN  IF stop = 1 THEN None
        ELSE Some(SubSeq(c, 1, IF stop <= Len(c) THEN stop ELSE Len(c)))

\* String.prototype.lastIndexOf(" "), an index from 0, -1 when there is none
LastIndexOfSpace(s) == LastAt(s, LAMBDA c : c = " ") - 1

MinTitleText == 10
MaxSentence == 80
TitleCut == 60
MinCutSpace == 30

GenericTitle == <<"A", " ", "T", "h", "r", "e", "a", "d", " ", "o", "n", " ", "X">>
Ellipsis == <<".", ".", ".">>

\* a mutation of IsTooShort: the comparison made with <= instead of <
IsTooShortOrEqual(c) == Len(c) <= MinTitleText

\* line 301
IsTooShort(c) == Len(c) < MinTitleText

\* a mutation of SentenceFits: the 60 of the truncation rule used for the sentence
SentenceFitsCut(c) == IsSome(FirstSentence(c)) /\ Len(Val(FirstSentence(c))) <= TitleCut

\* a mutation of SentenceFits: the first sentence returned whatever its length
SentenceFitsAny(c) == IsSome(FirstSentence(c))

\* line 307
SentenceFits(c) == IsSome(FirstSentence(c)) /\ Len(Val(FirstSentence(c))) <= MaxSentence

\* which return statement of generateTitle is taken for the cleaned text c
TitleRule(c) ==
    IF IsTooShort(c) THEN "generic"
    ELSE IF SentenceFits(c) THEN "sentence"
    ELSE IF Len(c) > TitleCut /\ LastIndexOfSpace(Slice0(c, TitleCut)) > MinCutSpace
         THEN "word"
    ELSE "cut"

\* generateTitle(text), lines 287-321
generateTitle(s) ==
    LET c == CleanTitleText(s)
        rule == TitleRule(c)
    IN  CASE rule = "generic" -> GenericTitle
          [] rule = "sentence" -> Trim(Val(FirstSentence(c)))
          [] rule = "word" ->
                Slice0(Slice0(c, TitleCut), LastIndexOfSpace(Slice0(c, TitleCut))) \o Ellipsis
          [] rule = "cut" ->
                Slice0(c, TitleCut) \o (IF Len(c) > TitleCut THEN Ellipsis ELSE <<>>)

-----------------------------------------------------------------------------
(* utils/formatter.ts: tweetToBlogPost *)

\* Array.prototype.slice(0, n): a negative n counts from the end
SliceTo(s, n) ==
    IF n >= 0 THEN SubSeq(s, 1, IF n < Len(s) THEN n ELSE Len(s))
    ELSE SubSeq(s, 1, IF Len(s) + n > 0 THEN Len(s) + n ELSE 0)

\* lines 119-125: the content parts of one media item
ContentMediaParts(media) ==
    IF media.type = "photo" THEN << <<"![](", media.url, ")">>, <<>> >>
    ELSE IF media.type = "video"
    THEN << <<"[Watch", " ", "Video](", media.url, ")">>, <<>> >>
    ELSE <<>>

\* lines 110-148: contentParts at the join
ContentParts(t) ==
    << t.text, <<>> >>
    \o (IF IsSome(t.media)
        THEN Concat([k \in 1..Len(Val(t.media)) |-> ContentMediaParts(Val(t.media)[k])])
        ELSE <<>>)
    \o (IF IsSome(t.poll)
        THEN << <<"##", " ", "Poll", " ", "Results">>, <<>> >>
             \o [k \in 1..Len(Val(t.poll).options) |->
                    <<"-", " ", "**", Val(t.poll).options[k].label, "**:", " ">>
                    \o PercentToString(Val(t.poll).options[k].percentage) \o <<"%">>]
             \o << <<>>,
                    <<"*">> \o formatNumber(Val(t.poll).total_votes)
                       \o <<" ", "total", " ", "votes*">>,
                    <<>> >>
        ELSE <<>>)
    \o (IF IsSome(t.quoted_tweet)
        THEN << <<"---">>, <<>>,
                <<">", " ", "**@", Val(t.quoted_tweet).username, "**", " ", "wrote:">>,
                <<">", " ">> \o Join(SplitLines(Val(t.quoted_tweet).text), <<"\n", ">", " ">>),
                <<>> >>
        ELSE <<>>)

WordsPerMinute == 200

\* Math.ceil(a / b) for integers a >= 0, b > 0
CeilDiv(a, b) == (a + b - 1) \div b

\* a mutation of ReadTime: Math.floor in place of Math.ceil
ReadTimeFloor(wordCount) ==
    IF wordCount \div WordsPerMinute > 1 THEN wordCount \div WordsPerMinute ELSE 1

\* line 154: Math.max(1, Math.ceil(wordCount / 200))
ReadTime(wordCount) ==
    IF CeilDiv(wordCount, WordsPerMinute) > 1 THEN CeilDiv(wordCount, WordsPerMinute) ELSE 1

\* line 153: content.split(/\s+/).length
WordCount(content) == SplitWsCount(content)

\* a mutation of MediaUrls: the animated_gif items pushed to neither list
MediaUrlsNoGif(t, types) ==
    IF IsSome(t.media)
    THEN LET picked == SelectSeq(Val(t.media),
                                 LAMBDA m : m.type \in types \ {"animated_gif"})
         IN  [k \in 1..Len(picked) |-> picked[k].url]
    ELSE <<>>

\* lines 156-167
MediaUrls(t, types) ==
    IF IsSome(t.media)
    THEN LET picked == SelectSeq(Val(t.media), LAMBDA m : m.type \in types)
         IN  [k \in 1..Len(picked) |-> picked[k].url]
    ELSE <<>>

DefaultMaxReplies == 10

\* lines 172-181
Comments(rs, o) ==
    LET includeReplies == IF IsSome(o.includeReplies) THEN Val(o.includeReplies) ELSE TRUE
        maxReplies == IF IsSome(o.maxReplies) THEN Val(o.maxReplies) ELSE DefaultMaxReplies
        taken == SliceTo(rs, maxReplies)
    IN  IF includeReplies
        THEN Some([k \in 1..Len(taken) |->
                     [author |-> taken[k].name, username |-> taken[k].username,
                      text |-> taken[k].text, likes |-> taken[k].likes,
                      timestamp |-> formatDate(taken[k].created_at)]])
        ELSE None

\* tweetToBlogPost(tweet, replies, options), lines 93-209
tweetToBlogPost(t, rs, o) ==
    LET content == Join(ContentParts(t), <<"\n">>)
        images == MediaUrls(t, {"photo"})
    IN  [title |-> generateTitle(t.text),
         subtitle |-> <<"A post by @", t.username>>,
         author |-> [name |-> t.name, username |-> t.username],
         published_at |-> formatDate(t.created_at),
         content |-> content,
         source_url |-> buildTweetUrl(t.id, t.username),
         source_type |-> "tweet",
         featured_image |-> IF images = <<>> THEN None ELSE Some(images[1]),
         images |-> images,
         videos |-> MediaUrls(t, {"video", "animated_gif"}),
         tags |-> IF IsSome(t.hashtags) THEN Val(t.hashtags) ELSE <<>>,
         word_count |-> WordCount(content),
         read_time_minutes |-> ReadTime(WordCount(content)),
         engagement |-> [likes |-> t.likes, retweets |-> t.retweets,
                         replies |-> t.replies, views |-> t.views],
         comments |-> Comments(rs, o)]

-----------------------------------------------------------------------------
(* utils/formatter.ts: blogPostToMarkdown *)

\* lines 267-272: the lines of one comment
CommentLines(comment) ==
    << <<"### @", comment.username>>,
       <<"*">> \o comment.timestamp \o <<"* | ">> \o formatNumber(comment.likes)
          \o <<" likes">>,
       <<>>, comment.text, <<>> >>

\* the lines array of blogPostToMarkdown at its return
BlogMarkdownLines(post) ==
    << <<"# ">> \o post.title, <<>> >>
    \o (IF post.subtitle # <<>> THEN << <<"*">> \o post.subtitle \o <<"*">>, <<>> >> ELSE <<>>)
    \o << <<"**Author**: ", post.author.name, " ([@", post.author.username,
             "](https://x.com/", post.author.username, "))">>,
           <<"**Published**: ">> \o post.published_at,
           <<"**Read time**: ">> \o NumToString(post.read_time_minutes) \o <<" min read">>,
           <<>> >>
    \o (IF Len(post.tags) > 0
        THEN << <<"**Tags**: ">>
                \o Join([k \in 1..Len(post.tags) |-> <<"#", post.tags[k]>>], <<" ">>),
                <<>> >>
        ELSE <<>>)
    \o << <<"---">>, <<>> >>
    \o (IF IsSome(post.featured_image) /\ Val(post.featured_image) # ""
        THEN << <<"![Featured Image](", Val(post.featured_image), ")">>, <<>> >>
        ELSE <<>>)
    \o << post.content, <<>>, <<"---">>, <<>>, <<"## Engagement">>, <<>>,
           <<"- **Likes**: ">> \o formatNumber(post.engagement.likes),
           <<"- **Retweets**: ">> \o formatNumber(post.engagement.retweets),
           <<"- **Replies**: ">> \o formatNumber(post.engagement.replies) >>
    \o (IF TruthyNum(post.engagement.views)
        THEN << <<"- **Views**: ">> \o formatNumber(Val(post.engagement.views)) >>
        ELSE <<>>)
    \o << <<>> >>
    \o (IF NonEmptyList(post.comments)
        THEN << <<"## Comments">>, <<>> >>
             \o Concat([k \in 1..Len(Val(post.comments)) |->
                           CommentLines(Val(post.comments)[k])])
        ELSE <<>>)
    \o << <<"---">>, <<>>,
           <<"*Originally posted on X: [View original](">> \o post.source_url \o <<")*">> >>

\* blogPostToMarkdown(post), lines 214-282
blogPostToMarkdown(post) == Join(BlogMarkdownLines(post), <<"\n">>)

-----------------------------------------------------------------------------
(* utils/formatter.ts: tweetsToFeed *)

\* a mutation of tweetsToFeed: each post put before the posts already rendered
tweetsToFeedReversed(tweets) ==
    Join(<< <<"# Tweet Feed">>, <<>>,
            <<"*">> \o NumToString(Len(tweets)) \o <<" tweets*">>, <<>>,
            <<"---">>, <<>> >>
         \o Concat([k \in 1..Len(tweets) |->
                       << tweetToMarkdown(tweets[Len(tweets) + 1 - k]), <<>>, <<"---">>, <<>> >>]),
         <<"\n">>)

\* tweetsToFeed(tweets), lines 326-344
tweetsToFeed(tweets) ==
    Join(<< <<"# Tweet Feed">>, <<>>,
            <<"*">> \o NumToString(Len(tweets)) \o <<" tweets*">>, <<>>,
            <<"---">>, <<>> >>
         \o Concat([k \in 1..Len(tweets) |->
                       << tweetToMarkdown(tweets[k]), <<>>, <<"---">>, <<>> >>]),
         <<"\n">>)

-----------------------------------------------------------------------------
(* twitter/client.ts: fetchTweet;  the tweetsave_batch tool *)

\* The url strings given to the tool, as atoms
UrlStatus == "https://x.com/alice/status/1234567890"
UrlBareId == "1234567891"
UrlNoTweet == "https://x.com/alice"

\* extractTweetId(input), lines 19-43, on these strings: the first is matched
\* by the status pattern, the second is all digits, the third holds no
\* /status/ part and no run of 15 to 20 digits at its end
extractTweetId(input) ==
    CASE input = UrlStatus -> Some("1234567890")
      [] input = UrlBareId -> Some("1234567891")
      [] OTHER -> None

\* extractUsername(url), lines 48-51, with the "i" placeholder of line 66
UsernameOf(input) == IF input = UrlBareId THEN "i" ELSE "alice"

\* What the upstream API answers to one GET (line 70): a tweet, a tweet that
\* lacks a field convertFxTweetToTweet reads (a TypeError), a body that
\* carries an error code with or without a message, an HTTP error status, or
\* no response at all (timeout, connection reset).
Answers ==
    {[kind |-> "tweet", status |-> 200, message |-> None, post |-> "plain"],
     [kind |-> "malformed", status |-> 200, post |-> "plain",
      message |-> Some(<<"Cannot read properties of undefined (reading 'id')">>)],
     [kind |-> "body", status |-> 200, message |-> None, post |-> "plain"],
     [kind |-> "body", status |-> 200, message |-> Some(<<>>), post |-> "plain"],
     [kind |-> "body", status |-> 200, message |-> Some(<<"PRIVATE_TWEET">>),
      post |-> "plain"],
     [kind |-> "http", status |-> 404, post |-> "plain",
      message |-> Some(<<"Request failed with status code 404">>)],
     [kind |-> "http", status |-> 429, post |-> "plain",
      message |-> Some(<<"Request failed with status code 429">>)],
     [kind |-> "http", status |-> 500, post |-> "plain",
      message |-> Some(<<"Request failed with status code 500">>)],
     [kind |-> "network", status |-> 0, post |-> "plain",
      message |-> Some(<<"timeout of 30000ms exceeded">>)]}

\* the posts the upstream API may hold for an id, by engagement and media
UpstreamPosts == {"plain", "quiet", "viral", "photos"}

\* the answers to the GET of a single-post tool: as above, with any of the posts
ToolAnswers ==
    Answers \cup {[kind |-> "tweet", status |-> 200, message |-> None, post |-> p] :
                     p \in UpstreamPosts}

\* the Tweet that convertFxTweetToTweet builds from the answered tweet
UpstreamTweet(tweetId, post) ==
    [id |-> tweetId, username |-> "alice", name |-> "Alice A",
     text |-> <<"H", "i", " ", "#", "b">>,
     created_at |-> [timestamp |-> TRUE, year |-> 2024, month |-> 1, day |-> 5,
                     hour |-> 15, minute |-> 7],
     media |-> IF post = "photos"
               THEN Some(<<[type |-> "photo", url |-> "p1.jpg", duration_ms |-> None,
                            thumbnail_url |-> None, width |-> Some(1200),
                            height |-> Some(675)],
                           [type |-> "video", url |-> "v1.mp4", duration_ms |-> Some(12000),
                            thumbnail_url |-> Some("v1.jpg"), width |-> Some(1280),
                            height |-> None]>>)
               ELSE None,
     poll |-> None, quoted_tweet |-> None, urls |-> None,
     hashtags |-> Some(<<"b">>),
     likes |-> CASE post = "quiet" -> 0 [] post = "viral" -> 2500000 [] OTHER -> 12,
     retweets |-> CASE post = "quiet" -> 0 [] post = "viral" -> 1000 [] OTHER -> 3,
     replies |-> CASE post = "quiet" -> 0 [] post = "viral" -> 999 [] OTHER -> 1,
     views |-> CASE post = "quiet" -> None [] post = "viral" -> Some(0)
                 [] OTHER -> Some(1500)]

\* fetchTweet(tweetIdOrUrl) issues a GET exactly when extractTweetId finds an id
\* (lines 57-61)
IssuesRequest(input) == IsSome(extractTweetId(input))

\* lines 12-13
FXTWITTER_API == "https://api.fxtwitter.com"
VXTWITTER_API == "https://api.vxtwitter.com"

\* lines 70-72: the GET that call k of fetchTweet issues for input
Request(k, input) ==
    [index |-> k, api |-> FXTWITTER_API, username |-> UsernameOf(input),
     id |-> Val(extractTweetId(input))]

\* lines 57-79: the requests that call k of fetchTweet issues before it awaits
RequestsOnCall(k, input) == IF IssuesRequest(input) THEN <<Request(k, input)>> ELSE <<>>

\* a mutation of RequestsOnSettle: a failed request tried again on the backup API
RequestsOnSettleBackup(k, input, answer) ==
    IF IssuesRequest(input) /\ answer.kind # "tweet"
    THEN <<[index |-> k, api |-> VXTWITTER_API, username |-> UsernameOf(input),
            id |-> Val(extractTweetId(input))]>>
    ELSE <<>>

\* lines 81-97: the requests that call k of fetchTweet issues once its GET is
\* answered: none, the answer is converted or an Error is thrown
RequestsOnSettle(k, input, answer) == <<>>

\* a mutation of FetchOutcome: the message of an error body taken as it is,
\* empty or not
FetchOutcomeRawMessage(input, answer) ==
    LET tweetId == extractTweetId(input)
        rejected(msg) == [ok |-> FALSE, tweet |-> None, message |-> msg]
    IN  IF ~IsSome(tweetId)
        THEN rejected(<<"Invalid tweet URL or ID: ", input>>)
        ELSE CASE answer.kind = "tweet" ->
                    [ok |-> TRUE, tweet |-> Some(UpstreamTweet(Val(tweetId), answer.post)),
                     message |-> <<>>]
               [] answer.kind = "malformed" -> rejected(Val(answer.message))
               [] answer.kind = "body" ->
                    rejected(IF IsSome(answer.message)
                             THEN Val(answer.message) ELSE <<"Tweet not found">>)
               [] answer.status = 404 -> rejected(<<"Tweet not found: ", Val(tweetId)>>)
               [] answer.status = 429 ->
                    rejected(<<"Rate limit exceeded. Please wait and try again.">>)
               [] OTHER -> rejected(<<"Failed to fetch tweet: ">> \o Val(answer.message))

\* How the promise of fetchTweet(input) settles, given the upstream answer
\* (lines 56-98): fulfilled with a Tweet, or rejected with an Error.
FetchOutcome(input, answer) ==
    LET tweetId == extractTweetId(input)
        rejected(msg) == [ok |-> FALSE, tweet |-> None, message |-> msg]
    IN  IF ~IsSome(tweetId)
        THEN rejected(<<"Invalid tweet URL or ID: ", input>>)
        ELSE CASE answer.kind = "tweet" ->
                    [ok |-> TRUE, tweet |-> Some(UpstreamTweet(Val(tweetId), answer.post)),
                     message |-> <<>>]
               [] answer.kind = "malformed" -> rejected(Val(answer.message))
               [] answer.kind = "body" ->
                    rejected(IF IsSome(answer.message) /\ Val(answer.message) # <<>>
                             THEN Val(answer.message) ELSE <<"Tweet not found">>)
               [] answer.status = 404 -> rejected(<<"Tweet not found: ", Val(tweetId)>>)
               [] answer.status = 429 ->
                    rejected(<<"Rate limit exceeded. Please wait and try again.">>)
               [] OTHER -> rejected(<<"Failed to fetch tweet: ">> \o Val(answer.message))

\* part_003 lines 373-377: the successful tweets and the entries with an error
SuccessfulTweets(rs) ==
    LET ok == SelectSeq(rs, LAMBDA r : IsSome(r.tweet))
    IN  [k \in 1..Len(ok) |-> Val(ok[k].tweet)]

ErrorEntries(rs) == SelectSeq(rs, LAMBDA r : IsSome(r.error) /\ Val(r.error) # <<>>)

\* part_003 lines 379-403: the value the handler returns for its results
BatchResult(us, f, rs) ==
    LET tweets == SuccessfulTweets(rs)
        errors == ErrorEntries(rs)
    IN  IF f = "json"
        THEN [isError |-> FALSE,
              json |-> Some([total |-> Len(us), successful |-> Len(tweets),
                             failed |-> Len(errors), tweets |-> tweets,
                             errors |-> [k \in 1..Len(errors) |->
                                            [url |-> errors[k].url,
                                             error |-> Val(errors[k].error)]]]),
              text |-> <<>>]
        ELSE [isError |-> FALSE, json |-> None,
              text |-> tweetsToFeed(tweets)
                       \o (IF Len(errors) > 0
                           THEN <<"\n", "\n", "## Errors", "\n", "\n">>
                                \o Concat([k \in 1..Len(errors) |->
                                              <<"- ", errors[k].url, ": ">>
                                              \o Val(errors[k].error) \o <<"\n">>])
                           ELSE <<>>)]

\* part_003 lines 405-414: the outer catch
BatchFailure(msg) ==
    [isError |-> TRUE, json |-> None, text |-> <<"Error in batch fetch: ">> \o msg]

\* a mutation of AfterCall: fetchTweet called without await, the loop goes on
AfterCallNoAwait(k) == [pc |-> "loop", i |-> k + 1]

\* part_003 line 364: the handler is suspended at the await of fetch k
AfterCall(k) == [pc |-> "await", i |-> k]

\* a mutation of AfterSettled: no try/catch around the await, so a rejection
\* reaches the outer catch and ends the batch
AfterSettledNoCatch(us, k, rs, outcome) ==
    IF outcome.ok
    THEN [pc |-> "loop", i |-> k + 1, out |-> None,
          results |-> Append(rs, [url |-> us[k], tweet |-> outcome.tweet, error |-> None])]
    ELSE [pc |-> "done", i |-> k, out |-> Some(BatchFailure(outcome.message)),
          results |-> rs]

\* part_003 lines 362-371: the handler resumes when fetch k has settled
AfterSettled(us, k, rs, outcome) ==
    [pc |-> "loop", i |-> k + 1, out |-> None,
     results |-> Append(rs, IF outcome.ok
                            THEN [url |-> us[k], tweet |-> outcome.tweet, error |-> None]
                            ELSE [url |-> us[k], tweet |-> None,
                                  error |-> Some(outcome.message)])]

-----------------------------------------------------------------------------
(* The tweetsave_to_blog tool *)

\* part_003 lines 278-280: the arguments the handler gives tweetToBlogPost
ToBlogReplies == <<>>
ToBlogOptions == [includeReplies |-> Some(FALSE), maxReplies |-> None]

\* a mutation of ApplyEngagementOption: the counters set to 0 one by one, the
\* views left as they were
ApplyEngagementKeepViews(post, include) ==
    IF ~include
    THEN [post EXCEPT !.engagement = [likes |-> 0, retweets |-> 0, replies |-> 0,
                                      views |-> post.engagement.views]]
    ELSE post

\* part_003 lines 283-286: the engagement replaced when the caller opts out
ApplyEngagementOption(post, include) ==
    IF ~include
    THEN [post EXCEPT !.engagement = [likes |-> 0, retweets |-> 0, replies |-> 0,
                                      views |-> None]]
    ELSE post

\* part_003 lines 288-299: the value the handler returns for its Blog Post
ToBlogResult(post, f) ==
    IF f = "json"
    THEN [isError |-> FALSE, json |-> Some(post), text |-> <<>>]
    ELSE [isError |-> FALSE, json |-> None, text |-> blogPostToMarkdown(post)]

\* part_003 lines 300-309: the catch
ToBlogFailure(msg) ==
    [isError |-> TRUE, json |-> None, text |-> <<"Error converting to blog: ">> \o msg]

-----------------------------------------------------------------------------
(* The tweetsave_get_tweet, tweetsave_get_thread and tweetsave_extract_media tools *)

\* a mutation of ErrorMessageOf: the message of the rejection dropped
ErrorMessageUnknown(outcome) == <<"Unknown error">>

\* error instanceof Error ? error.message : String(error), for the rejection
\* of fetchTweet (part_003 lines 140, 209, 301, 541)
ErrorMessageOf(outcome) == outcome.message

\* part_003 lines 127-138
GetTweetResult(t, f) ==
    IF f = "json"
    THEN [isError |-> FALSE, json |-> Some(t), text |-> <<>>]
    ELSE [isError |-> FALSE, json |-> None, text |-> tweetToMarkdown(t)]

\* part_003 lines 139-148
GetTweetFailure(msg) ==
    [isError |-> TRUE, json |-> None,
     text |-> <<"Error fetching tweet: ">> \o msg
              \o <<"\n", "\n", "Tips:", "\n", "- Make sure the URL is correct", "\n",
                   "- Check if the tweet is public", "\n",
                   "- Try using just the tweet ID">>]

\* fetchThread (client.ts lines 123-133): the thread of a fetched tweet
ThreadOf(t) == <<t>>

\* part_003 lines 196-207
GetThreadResult(ts, f) ==
    IF f = "json"
    THEN [isError |-> FALSE, json |-> Some([tweets |-> ts, count |-> Len(ts)]),
          text |-> <<>>]
    ELSE [isError |-> FALSE, json |-> None, text |-> tweetsToFeed(ts)]

\* part_003 lines 208-217
GetThreadFailure(msg) ==
    [isError |-> TRUE, json |-> None, text |-> <<"Error fetching thread: ">> \o msg]

MediaTypes == {"all", "photos", "videos"}

\* part_003 lines 480-485
FilterMedia(media, mediaType) ==
    IF mediaType = "photos" THEN SelectSeq(media, LAMBDA m : m.type = "photo")
    ELSE IF mediaType = "videos"
    THEN SelectSeq(media, LAMBDA m : m.type \in {"video", "animated_gif"})
    ELSE media

\* String.prototype.toUpperCase() of a media type
TypeUpperCase(type) ==
    CASE type = "photo" -> "PHOTO" [] type = "video" -> "VIDEO"
      [] type = "animated_gif" -> "ANIMATED_GIF"

\* part_003 lines 522-535: the lines of one media item
ExtractedMediaLines(m) ==
    << <<"### ", TypeUpperCase(m.type)>>, <<"- **URL**: ", m.url>> >>
    \o (IF TruthyNum(m.width) /\ TruthyNum(m.height)
        THEN << <<"- **Dimensions**: ">> \o NumToString(Val(m.width)) \o <<"x">>
                \o NumToString(Val(m.height)) >>
        ELSE <<>>)
    \o (IF TruthyNum(m.duration_ms) /\ RoundDiv(Val(m.duration_ms), 1000) # 0
        THEN << <<"- **Duration**: ">>
                \o NumToString(RoundDiv(Val(m.duration_ms), 1000)) \o <<"s">> >>
        ELSE <<>>)
    \o (IF IsSome(m.thumbnail_url) /\ Val(m.thumbnail_url) # ""
        THEN << <<"- **Thumbnail**: ", Val(m.thumbnail_url)>> >>
        ELSE <<>>)
    \o << <<>> >>

\* part_003 lines 468-539
ExtractMediaResult(t, mediaType) ==
    LET plain(txt) == [isError |-> FALSE, json |-> None, text |-> txt]
        media == FilterMedia(Val(t.media), mediaType)
    IN  IF ~NonEmptyList(t.media) THEN plain(<<"No media found in this tweet.">>)
        ELSE IF Len(media) = 0 THEN plain(<<"No ", mediaType, " found in this tweet.">>)
        ELSE plain(Join(<< <<"# Media from Tweet">>, <<>>,
                           <<"**Tweet**: ">> \o buildTweetUrl(t.id, t.username),
                           <<"**Media count**: ">> \o NumToString(Len(media)), <<>>,
                           <<"## Media URLs">>, <<>> >>
                        \o Concat([k \in 1..Len(media) |-> ExtractedMediaLines(media[k])]),
                        <<"\n">>))

\* part_003 lines 540-549
ExtractMediaFailure(msg) ==
    [isError |-> TRUE, json |-> None, text |-> <<"Error extracting media: ">> \o msg]

-----------------------------------------------------------------------------
(* http-server.ts: the transports map, GET /sse, POST /messages, /api/tweet/ *)

\* the session ids of the transports the server creates, one per GET /sse
\* (transport.sessionId, line 73)
SessionIds == {"s1", "s2"}

\* names every JavaScript object inherits from Object.prototype: the
\* transports map of line 26 is an object literal
PrototypeKeys == {"constructor", "toString"}

\* new SSEServerTransport("/messages", res), line 72
SSEServerTransport(sessionId) == [sessionId |-> sessionId, endpoint |-> "/messages"]

\* The transports map is the set of its <<key, transport>> entries.
\* transports[sessionId] = transport, line 74
TransportsAssign(map, sessionId, transport) ==
    {e \in map : e[1] # sessionId} \cup {<<sessionId, transport>>}

\* delete transports[sessionId], line 93
TransportsDelete(map, sessionId) == {e \in map : e[1] # sessionId}

TransportsKeys(map) == {e[1] : e \in map}

\* a mutation of TransportsLookup: the key ignored, any registered transport
\* taken
TransportsLookupAny(map, sessionId) ==
    IF map # {}
    THEN [kind |-> "transport", value |-> Some((CHOOSE e \in map : TRUE)[2])]
    ELSE [kind |-> "undefined", value |-> None]

\* transports[sessionId], line 120: the entry of the key, else the property
\* the object inherits under that name (a function, not a transport), else
\* undefined
TransportsLookup(map, sessionId) ==
    IF sessionId \in TransportsKeys(map)
    THEN [kind |-> "transport", value |-> Some((CHOOSE e \in map : e[1] = sessionId)[2])]
    ELSE IF sessionId \in PrototypeKeys
    THEN [kind |-> "inherited", value |-> None]
    ELSE [kind |-> "undefined", value |-> None]

\* a GET /sse handler not yet called
SseNone == [pc |-> "none", listening |-> FALSE, closed |-> FALSE, status |-> None]

\* urlObj.searchParams.get("sessionId"), line 112: null without the parameter
PostSessionIds ==
    {None, Some(""), Some("ghost"), Some("constructor")} \cup {Some(s) : s \in SessionIds}

\* lines 114-129: the handler of a POST /messages up to its response or to
\* the await of transport.handlePostMessage; the call of handlePostMessage on
\* an inherited property throws a TypeError, which the catch answers
HandlePostMessage(map, sessionId) ==
    LET answered(code) == [sessionId |-> sessionId, pc |-> "done", status |-> Some(code),
                           by |-> "server", delegated |-> None]
        found == TransportsLookup(map, Val(sessionId))
    IN  IF ~IsSome(sessionId) \/ Val(sessionId) = "" THEN answered(400)
        ELSE IF found.kind = "undefined" THEN answered(404)
        ELSE IF found.kind = "inherited" THEN answered(500)
        ELSE [sessionId |-> sessionId, pc |-> "await", status |-> None,
              by |-> "nobody", delegated |-> found.value]

\* how handlePostMessage of the transport ends: it has answered the request
\* or not, and it has returned or thrown
TransportOutcomes ==
    {[headersSent |-> TRUE, threw |-> FALSE], [headersSent |-> TRUE, threw |-> TRUE],
     [headersSent |-> FALSE, threw |-> TRUE]}

\* lines 129-136: the handler resumes when handlePostMessage has settled
AfterPostSettled(p, outcome) ==
    IF outcome.headersSent
    THEN [p EXCEPT !.pc = "done", !.by = "transport"]
    ELSE [p EXCEPT !.pc = "done", !.by = "server", !.status = Some(500)]

\* url.replace("/api/tweet/", "").split("?")[0], line 144
RestIds == {UrlStatus, UrlBareId, UrlNoTweet, ""}

\* urlObj.searchParams.get("format"), line 149
RestFormats == {None, Some(""), Some("json"), Some("markdown"), Some("blog"), Some("xml")}

\* line 149: format || "json"
RestFormatOf(format) == IF IsSome(format) /\ Val(format) # "" THEN Val(format) ELSE "json"

\* the options tweetToBlogPost is called with at line 155: none
RestBlogOptions == [includeReplies |-> None, maxReplies |-> None]

\* lines 149-161: the response to a fetched tweet
RestResponse(t, format) ==
    LET f == RestFormatOf(format)
    IN  IF f = "markdown"
        THEN [status |-> 200, contentType |-> "text/markdown; charset=utf-8",
              json |-> None, text |-> tweetToMarkdown(t)]
        ELSE IF f = "blog"
        THEN [status |-> 200, contentType |-> "text/markdown; charset=utf-8",
              json |-> None,
              text |-> blogPostToMarkdown(tweetToBlogPost(t, <<>>, RestBlogOptions))]
        ELSE [status |-> 200, contentType |-> "application/json",
              json |-> Some([tweet |-> t]), text |-> <<>>]

\* a mutation of RestFailure: the status chosen by the cause of the failure
RestFailureByCause(outcome) ==
    [status |-> IF outcome.message = <<"Rate limit exceeded. Please wait and try again.">>
                THEN 429 ELSE 404,
     contentType |-> "application/json",
     json |-> Some([error |-> outcome.message]), text |-> <<>>]

\* lines 162-167: the response to a rejected fetch
RestFailure(outcome) ==
    [status |-> 404, contentType |-> "application/json",
     json |-> Some([error |-> outcome.message]), text |-> <<>>]

-----------------------------------------------------------------------------
(* The arguments the functions are applied to *)

\* the largest number of words of a tweet text
MaxWords == 450
\* the largest length of the filler of a title text
MaxFill == 82
\* the number of steps of the grid of counts given to formatNumber
NumGrid == 80

TextHello ==
    <<"H", "e", "l", "l", "o", " ", "w", "o", "r", "l", "d", ".", " ", "M",
     "o", "r", "e", " ", "t", "e", "x", "t", " ", "h", "e", "r", "e", ".">>

TextTwoLines ==
    <<"L", "i", "n", "e", " ", "o", "n", "e", "\n", "\n", " ", " ", "s", "e",
     "c", "o", "n", "d", " ", "#", "b", " ", "l", "i", "n", "e">>

TextMentionTag ==
    <<"@", "a", " ", "#", "b">>

TextQuestion ==
    <<"?", "w", "h", "a", "t", " ", "i", "s", " ", "t", "h", "i", "s", " ",
     "t", "h", "i", "n", "g">>

TextGeneric ==
    <<"A", " ", "T", "h", "r", "e", "a", "d", " ", "o", "n", " ", "X">>

TextLink ==
    <<"s", "e", "e", " ", "h", "t", "t", "p", "s", ":", "/", "/", "t", ".",
     "c", "o", "/", "x", "1", " ", "n", "o", "w">>

\* n words "a" separated by single spaces
Words(n) == [k \in 1..(2 * n - 1) |-> IF k % 2 = 1 THEN "a" ELSE " "]

\* n characters "a", the one at position sp (if any) replaced by a space
Fill(n, sp) == [k \in 1..n |-> IF k = sp THEN " " ELSE "a"]

NumInputs ==
    {25 * k : k \in 0..NumGrid}
    \cup {Million + 50000 * k : k \in 0..NumGrid}
    \cup {999, 1001, 1049, 1051, 99949, 99950, 999949, 999950, 999999, 1000001, 99999999}

Dates == {Timestamp(2024, 1, 5, 15, 7), Timestamp(2023, 12, 31, 0, 0), Malformed}

Photo(u) == [type |-> "photo", url |-> u, duration_ms |-> None, thumbnail_url |-> None]
Video(u, d, th) == [type |-> "video", url |-> u, duration_ms |-> d, thumbnail_url |-> th]
Gif(u) == [type |-> "animated_gif", url |-> u, duration_ms |-> None, thumbnail_url |-> None]

MediaInputs ==
    {None,
     Some(<<Photo("p1.jpg")>>),
     Some(<<Video("v1.mp4", Some(12500), Some("v1.jpg"))>>),
     Some(<<Photo("p1.jpg"), Video("v2.mp4", None, None), Gif("g1.mp4"), Photo("p2.jpg")>>)}

PollOption(l, v, p10) == [label |-> l, votes |-> v, percentage |-> p10]

PollInputs ==
    {None,
     Some([options |-> <<PollOption("Yes", 470, 470), PollOption("No", 530, 530)>>,
           total_votes |-> 1000, voting_status |-> "closed"]),
     Some([options |-> <<PollOption("A", 1500, 1000), PollOption("B", 0, 0),
                         PollOption("C", 1, 125)>>,
           total_votes |-> 1500, voting_status |-> "open"])}

QuoteInputs ==
    {None,
     Some([username |-> "bob", text |-> TextHello]),
     Some([username |-> "eve", text |-> TextTwoLines])}

Link(t, d) ==
    [url |-> "https://t.co/x1", expanded_url |-> "https://example.com/a",
     display_url |-> "example.com/a", title |-> t, description |-> d]

UrlInputs ==
    {None,
     Some(<<Link(Some("Example"), Some(TextHello))>>),
     Some(<<Link(None, None), Link(Some("Other"), None)>>)}

HashtagInputs == {None, Some(<<"b">>), Some(<<"b", "c">>)}

ViewInputs == {None, Some(0), Some(1500)}

TweetRecord(tx, me, po, qu, ur, ha, vi, da) ==
    [id |-> "1234567890", username |-> "alice", name |-> "Alice A", text |-> tx,
     created_at |-> da, media |-> me, poll |-> po, quoted_tweet |-> qu, urls |-> ur,
     hashtags |-> ha, likes |-> 999, retweets |-> 1000, replies |-> 2500000,
     views |-> vi]

\* the Post Records given to tweetToMarkdown
MarkdownTweets ==
    {TweetRecord(tx, me, po, qu, ur, ha, vi, da) :
        tx \in {TextHello, TextTwoLines}, me \in MediaInputs, po \in PollInputs,
        qu \in QuoteInputs, ur \in UrlInputs, ha \in HashtagInputs,
        vi \in ViewInputs, da \in Dates}

\* the Post Records given to tweetToBlogPost
BlogTweets ==
    {TweetRecord(tx, me, po, qu, None, ha, Some(1500), da) :
        tx \in {TextHello, TextTwoLines, TextMentionTag, <<>>}, me \in MediaInputs,
        po \in PollInputs, qu \in QuoteInputs, ha \in {None, Some(<<"b">>)},
        da \in {Timestamp(2024, 1, 5, 15, 7), Malformed}}
    \cup {TweetRecord(Words(n), None, None, None, None, None, None,
                      Timestamp(2024, 1, 5, 15, 7)) :
            n \in {1, 2, 198, 199, 200, 201, 399, 400, MaxWords - 1, MaxWords}}

Reply(u) ==
    [name |-> u, username |-> u, text |-> TextHello, likes |-> 3,
     created_at |-> Timestamp(2024, 1, 5, 15, 7)]

ReplyInputs ==
    {<<>>, <<Reply("r1")>>, <<Reply("r1"), Reply("r2")>>,
     <<Reply("r1"), Reply("r2"), Reply("r3")>>,
     <<Reply("r1"), Reply("r2"), Reply("r3"), Reply("r4"), Reply("r5"), Reply("r6"),
       Reply("r7"), Reply("r8"), Reply("r9"), Reply("r10"), Reply("r11")>>}

OptionInputs ==
    {[includeReplies |-> ir, maxReplies |-> mr] :
        ir \in {None, Some(TRUE), Some(FALSE)}, mr \in {None, Some(2), Some(0), Some(-1)}}

FillLengths == {8, 9, 10, 11} \cup 58..62 \cup 78..MaxFill

TitlePrefixes ==
    {<<>>, <<"@", "a", " ">>, <<"@", "a", " ", "@", "b", "\n">>, <<" ", "@", "a", " ">>,
     <<"h", "t", "t", "p", "s", ":", "/", "/", "t", ".", "c", "o", " ">>,
     <<"h", "t", "t", "p", "s", ":", "/", "/", "t", ".", "c", "o", " ", "@", "a", " ">>,
     <<"#", "b", " ">>}

TitleEndings ==
    {<<>>, <<".">>, <<"!", " ", "M", "o", "r", "e">>, <<" ", "#", "t", "a", "g">>}

\* the texts given to generateTitle
TitleTexts ==
    {pre \o Fill(n, sp) \o end :
        pre \in TitlePrefixes, n \in FillLengths, sp \in {0, 5, 30, 31, 32, 45},
        end \in TitleEndings}
    \cup {TextHello, TextTwoLines, TextMentionTag, TextQuestion, TextGeneric, TextLink, <<>>}
    \cup {<<x>> \o Fill(n, 5) : x \in Terminator, n \in FillLengths}

\* the largest number of posts of a feed
MaxFeed == 3

\* the Post Records a feed is made of
FeedPosts ==
    {TweetRecord(TextHello, None, None, None, None, None, None, Timestamp(2024, 1, 5, 15, 7)),
     TweetRecord(TextTwoLines, Some(<<Photo("p1.jpg")>>), None,
                 Some([username |-> "eve", text |-> TextTwoLines]), None,
                 Some(<<"b">>), Some(1500), Timestamp(2023, 12, 31, 0, 0)),
     TweetRecord(TextLink, None,
                 Some([options |-> <<PollOption("Yes", 470, 470), PollOption("No", 530, 530)>>,
                       total_votes |-> 1000, voting_status |-> "closed"]),
                 None, Some(<<Link(None, None)>>), None, Some(0), Malformed),
     TweetRecord(<<>>, None, None, None, None, None, None, Timestamp(2024, 1, 5, 15, 7))}

\* the sequences of Post Records given to tweetsToFeed
FeedInputs == UNION {[1..n -> FeedPosts] : n \in 0..MaxFeed}

-----------------------------------------------------------------------------
(* Specifications *)

\* the largest number of urls of a batch (the tool's schema allows 1 to 10)
MaxBatch == 3

BatchUrls == {UrlStatus, UrlBareId, UrlNoTweet}
UrlLists == UNION {[1..n -> BatchUrls] : n \in 1..MaxBatch}
Formats == {"markdown", "json"}

NumIdle == num = 0 /\ numStr = None
TweetIdle == tweet = None /\ md = None
BlogIdle == replies = <<>> /\ opts = None /\ blog = None /\ blogMd = None
TitleIdle == text = <<>> /\ title = None
BatchIdle ==
    /\ pc = "idle" /\ urls = <<>> /\ fmt = "markdown" /\ i = 0
    /\ inflight = {} /\ started = <<>> /\ requests = <<>> /\ outcomes = <<>>
    /\ results = <<>> /\ out = None
FeedIdle == feedTweets = <<>> /\ feed = None
ToolIdle == toolPc = "idle" /\ params = None /\ toolOut = None
HttpIdle ==
    /\ transports = {} /\ sse = [s \in SessionIds |-> SseNone]
    /\ postReq = None /\ restReq = None

(* formatNumber *)

InitNumber ==
    /\ num \in NumInputs /\ numStr = None
    /\ TweetIdle /\ BlogIdle /\ TitleIdle /\ BatchIdle /\ FeedIdle /\ ToolIdle /\ HttpIdle

FormatNumberCall ==
    /\ numStr = None
    /\ numStr' = Some(formatNumber(num))
    /\ UNCHANGED <<num, tweetVars, blogVars, titleVars, batchVars, feedVars, toolVars,
                   httpVars>>

SpecNumber == InitNumber /\ [][FormatNumberCall]_vars

(* tweetToMarkdown *)

InitMarkdown ==
    /\ tweet \in MarkdownTweets /\ md = None
    /\ NumIdle /\ BlogIdle /\ TitleIdle /\ BatchIdle /\ FeedIdle /\ ToolIdle /\ HttpIdle

TweetToMarkdownCall ==
    /\ md = None
    /\ md' = Some(tweetToMarkdown(tweet))
    /\ UNCHANGED <<tweet, numVars, httpVars, blogVars, titleVars, batchVars, feedVars, toolVars>>

SpecMarkdown == InitMarkdown /\ [][TweetToMarkdownCall]_vars

(* tweetToBlogPost *)

InitBlog ==
    /\ tweet \in BlogTweets /\ md = None
    /\ replies \in ReplyInputs /\ opts \in OptionInputs
    /\ blog = None /\ blogMd = None
    /\ NumIdle /\ TitleIdle /\ BatchIdle /\ FeedIdle /\ ToolIdle /\ HttpIdle

TweetToBlogPostCall ==
    /\ blog = None
    /\ blog' = Some(tweetToBlogPost(tweet, replies, opts))
    /\ UNCHANGED <<tweetVars, replies, opts, blogMd, numVars, httpVars, titleVars, batchVars,
                   feedVars, toolVars>>

SpecBlog == InitBlog /\ [][TweetToBlogPostCall]_vars

(* generateTitle *)

InitTitle ==
    /\ text \in TitleTexts /\ title = None
    /\ NumIdle /\ TweetIdle /\ BlogIdle /\ BatchIdle /\ FeedIdle /\ ToolIdle /\ HttpIdle

GenerateTitleCall ==
    /\ title = None
    /\ title' = Some(generateTitle(text))
    /\ UNCHANGED <<text, numVars, httpVars, tweetVars, blogVars, batchVars, feedVars, toolVars>>

SpecTitle == InitTitle /\ [][GenerateTitleCall]_vars

(* tweetsToFeed *)

InitFeed ==
    /\ feedTweets \in FeedInputs /\ feed = None
    /\ NumIdle /\ TweetIdle /\ BlogIdle /\ TitleIdle /\ BatchIdle /\ ToolIdle /\ HttpIdle

TweetsToFeedCall ==
    /\ feed = None
    /\ feed' = Some(tweetsToFeed(feedTweets))
    /\ UNCHANGED <<feedTweets, numVars, httpVars, tweetVars, blogVars, titleVars, batchVars, toolVars>>

SpecFeed == InitFeed /\ [][TweetsToFeedCall]_vars

(* tweetsave_batch *)

Init == NumIdle /\ TweetIdle /\ BlogIdle /\ TitleIdle /\ BatchIdle /\ FeedIdle /\ ToolIdle /\ HttpIdle

\* the tool is called with its validated params
BatchCall ==
    /\ pc = "idle"
    /\ \E us \in UrlLists, f \in Formats :
          /\ urls' = us /\ fmt' = f
          /\ pc' = "loop" /\ i' = 1
          /\ inflight' = {} /\ started' = <<>> /\ requests' = <<>> /\ outcomes' = <<>>
          /\ results' = <<>> /\ out' = None
    /\ UNCHANGED <<numVars, httpVars, tweetVars, blogVars, titleVars, feedVars, toolVars>>

\* one iteration of the for loop calls fetchTweet(url) and awaits it
BatchFetch ==
    /\ pc = "loop" /\ i <= Len(urls)
    /\ started' = Append(started, i)
    /\ inflight' = inflight \cup {i}
    /\ requests' = requests \o RequestsOnCall(i, urls[i])
    /\ pc' = AfterCall(i).pc /\ i' = AfterCall(i).i
    /\ UNCHANGED <<urls, fmt, outcomes, results, out, numVars, httpVars, tweetVars, blogVars,
                   titleVars, feedVars, toolVars>>

\* the promise of the awaited fetch settles and the handler resumes
BatchSettle ==
    /\ pc = "await"
    /\ \E k \in inflight, answer \in Answers :
          LET outcome == FetchOutcome(urls[k], answer)
              after == AfterSettled(urls, k, results, outcome)
          IN  \* with no request issued there is no answer to choose
              /\ IssuesRequest(urls[k]) \/ answer.kind = "tweet"
              /\ inflight' = inflight \ {k}
              /\ requests' = requests \o RequestsOnSettle(k, urls[k], answer)
              /\ outcomes' = Append(outcomes, [index |-> k, ok |-> outcome.ok,
                                               message |-> outcome.message])
              /\ pc' = after.pc /\ i' = after.i
              /\ results' = after.results /\ out' = after.out
    /\ UNCHANGED <<urls, fmt, started, numVars, httpVars, tweetVars, blogVars, titleVars,
                   feedVars, toolVars>>

\* the loop has ended: the handler builds its result and returns it
BatchReturn ==
    /\ pc = "loop" /\ i > Len(urls)
    /\ out' = Some(BatchResult(urls, fmt, results))
    /\ pc' = "done"
    /\ UNCHANGED <<urls, fmt, i, inflight, started, requests, outcomes, results,
                   numVars, httpVars, tweetVars, blogVars, titleVars, feedVars, toolVars>>

Next == BatchCall \/ BatchFetch \/ BatchSettle \/ BatchReturn

Spec == Init /\ [][Next]_vars

(* tweetsave_to_blog *)

\* the tool is called with its validated params; the handler calls
\* fetchTweet(params.url) and awaits it
ToBlogCall ==
    /\ toolPc = "idle"
    /\ \E u \in BatchUrls, e \in BOOLEAN, f \in Formats :
          /\ params' = Some([tool |-> "tweetsave_to_blog", url |-> u,
                              include_engagement |-> e, response_format |-> f])
          /\ requests' = requests \o RequestsOnCall(0, u)
    /\ toolPc' = "await"
    /\ UNCHANGED <<toolOut, pc, urls, fmt, i, inflight, started, outcomes, results, out,
                   numVars, httpVars, tweetVars, blogVars, titleVars, feedVars>>

\* the promise of the fetch settles: the handler converts the tweet and
\* returns the Blog Post, or returns the error of the rejection
ToBlogSettle ==
    /\ toolPc = "await" /\ Val(params).tool = "tweetsave_to_blog"
    /\ \E answer \in ToolAnswers :
          LET p == Val(params)
              outcome == FetchOutcome(p.url, answer)
              post == ApplyEngagementOption(
                          tweetToBlogPost(Val(outcome.tweet), ToBlogReplies, ToBlogOptions),
                          p.include_engagement)
          IN  \* with no request issued there is no answer to choose
              /\ IssuesRequest(p.url) \/ answer.kind = "network"
              /\ requests' = requests \o RequestsOnSettle(0, p.url, answer)
              /\ outcomes' = Append(outcomes, [index |-> 0, ok |-> outcome.ok,
                                               message |-> outcome.message])
              /\ IF outcome.ok
                 THEN /\ tweet' = Val(outcome.tweet)
                      /\ blog' = Some(post)
                      /\ blogMd' = IF p.response_format = "json" THEN None
                                   ELSE Some(blogPostToMarkdown(post))
                      /\ toolOut' = Some(ToBlogResult(post, p.response_format))
                 ELSE /\ toolOut' = Some(ToBlogFailure(ErrorMessageOf(outcome)))
                      /\ UNCHANGED <<tweet, blog, blogMd>>
    /\ toolPc' = "done"
    /\ UNCHANGED <<params, md, replies, opts, numVars, httpVars, titleVars, feedVars,
                   pc, urls, fmt, i, inflight, started, results, out>>

NextToBlog == ToBlogCall \/ ToBlogSettle

SpecToBlog == Init /\ [][NextToBlog]_vars

(* the single-item tools *)

\* what a single-item handler leaves alone when it calls fetchTweet
ToolCallUnchanged ==
    UNCHANGED <<toolOut, pc, urls, fmt, i, inflight, started, outcomes, results, out,
                numVars, httpVars, tweetVars, blogVars, titleVars, feedVars>>

\* tweetsave_get_tweet is called: the handler calls fetchTweet(params.url)
GetTweetCall ==
    /\ toolPc = "idle"
    /\ \E u \in BatchUrls, f \in Formats :
          /\ params' = Some([tool |-> "tweetsave_get_tweet", url |-> u,
                              response_format |-> f])
          /\ requests' = requests \o RequestsOnCall(0, u)
    /\ toolPc' = "await"
    /\ ToolCallUnchanged

\* the fetch settles: the handler returns the tweet, as JSON or rendered, or
\* the error of the rejection
GetTweetSettle ==
    /\ toolPc = "await" /\ Val(params).tool = "tweetsave_get_tweet"
    /\ \E answer \in ToolAnswers :
          LET p == Val(params)
              outcome == FetchOutcome(p.url, answer)
          IN  /\ IssuesRequest(p.url) \/ answer.kind = "network"
              /\ requests' = requests \o RequestsOnSettle(0, p.url, answer)
              /\ outcomes' = Append(outcomes, [index |-> 0, ok |-> outcome.ok,
                                               message |-> outcome.message])
              /\ IF outcome.ok
                 THEN /\ tweet' = Val(outcome.tweet)
                      /\ md' = IF p.response_format = "json" THEN None
                               ELSE Some(tweetToMarkdown(Val(outcome.tweet)))
                      /\ toolOut' = Some(GetTweetResult(Val(outcome.tweet), p.response_format))
                 ELSE /\ toolOut' = Some(GetTweetFailure(ErrorMessageOf(outcome)))
                      /\ UNCHANGED <<tweet, md>>
    /\ toolPc' = "done"
    /\ UNCHANGED <<params, blogVars, numVars, httpVars, titleVars, feedVars,
                   pc, urls, fmt, i, inflight, started, results, out>>

\* tweetsave_get_thread is called: the handler calls fetchThread(params.url),
\* which calls fetchTweet
GetThreadCall ==
    /\ toolPc = "idle"
    /\ \E u \in BatchUrls, f \in Formats :
          /\ params' = Some([tool |-> "tweetsave_get_thread", url |-> u,
                              response_format |-> f])
          /\ requests' = requests \o RequestsOnCall(0, u)
    /\ toolPc' = "await"
    /\ ToolCallUnchanged

\* the fetch settles: the handler returns the thread, as JSON or as a feed, or
\* the error of the rejection
GetThreadSettle ==
    /\ toolPc = "await" /\ Val(params).tool = "tweetsave_get_thread"
    /\ \E answer \in ToolAnswers :
          LET p == Val(params)
              outcome == FetchOutcome(p.url, answer)
          IN  /\ IssuesRequest(p.url) \/ answer.kind = "network"
              /\ requests' = requests \o RequestsOnSettle(0, p.url, answer)
              /\ outcomes' = Append(outcomes, [index |-> 0, ok |-> outcome.ok,
                                               message |-> outcome.message])
              /\ IF outcome.ok
                 THEN /\ feedTweets' = ThreadOf(Val(outcome.tweet))
                      /\ feed' = IF p.response_format = "json" THEN None
                                 ELSE Some(tweetsToFeed(ThreadOf(Val(outcome.tweet))))
                      /\ toolOut' = Some(GetThreadResult(ThreadOf(Val(outcome.tweet)),
                                                         p.response_format))
                 ELSE /\ toolOut' = Some(GetThreadFailure(ErrorMessageOf(outcome)))
                      /\ UNCHANGED <<feedTweets, feed>>
    /\ toolPc' = "done"
    /\ UNCHANGED <<params, tweetVars, blogVars, numVars, httpVars, titleVars,
                   pc, urls, fmt, i, inflight, started, results, out>>

\* tweetsave_extract_media is called: the handler calls fetchTweet(params.url)
ExtractMediaCall ==
    /\ toolPc = "idle"
    /\ \E u \in BatchUrls, mt \in MediaTypes :
          /\ params' = Some([tool |-> "tweetsave_extract_media", url |-> u,
                              media_type |-> mt])
          /\ requests' = requests \o RequestsOnCall(0, u)
    /\ toolPc' = "await"
    /\ ToolCallUnchanged

\* the fetch settles: the handler returns the media of the tweet, or the
\* error of the rejection
ExtractMediaSettle ==
    /\ toolPc = "await" /\ Val(params).tool = "tweetsave_extract_media"
    /\ \E answer \in ToolAnswers :
          LET p == Val(params)
              outcome == FetchOutcome(p.url, answer)
          IN  /\ IssuesRequest(p.url) \/ answer.kind = "network"
              /\ requests' = requests \o RequestsOnSettle(0, p.url, answer)
              /\ outcomes' = Append(outcomes, [index |-> 0, ok |-> outcome.ok,
                                               message |-> outcome.message])
              /\ IF outcome.ok
                 THEN /\ tweet' = Val(outcome.tweet)
                      /\ toolOut' = Some(ExtractMediaResult(Val(outcome.tweet), p.media_type))
                 ELSE /\ toolOut' = Some(ExtractMediaFailure(ErrorMessageOf(outcome)))
                      /\ UNCHANGED tweet
    /\ toolPc' = "done"
    /\ UNCHANGED <<params, md, blogVars, numVars, httpVars, titleVars, feedVars,
                   pc, urls, fmt, i, inflight, started, results, out>>

NextTools ==
    \/ GetTweetCall \/ GetTweetSettle
    \/ GetThreadCall \/ GetThreadSettle
    \/ ToBlogCall \/ ToBlogSettle
    \/ ExtractMediaCall \/ ExtractMediaSettle

SpecTools == Init /\ [][NextTools]_vars

(* http-server: GET /sse and POST /messages *)

\* what the SSE and message handlers leave alone
HttpUnchanged ==
    UNCHANGED <<restReq, numVars, tweetVars, blogVars, titleVars, batchVars, feedVars, toolVars>>

\* GET /sse, lines 67-88: the transport is created and registered, and the
\* handler awaits mcpServer.connect(transport)
SseRequest(s) ==
    /\ sse[s].pc = "none"
    /\ transports' = TransportsAssign(transports, s, SSEServerTransport(s))
    /\ sse' = [sse EXCEPT ![s].pc = "connect"]
    /\ UNCHANGED postReq
    /\ HttpUnchanged

\* lines 88-94: connect has returned, the transport has begun the event
\* stream, and the handler registers its close listener
SseConnected(s) ==
    /\ sse[s].pc = "connect"
    /\ sse' = [sse EXCEPT ![s].pc = "open", ![s].listening = TRUE, ![s].status = Some(200)]
    /\ UNCHANGED <<transports, postReq>>
    /\ HttpUnchanged

\* lines 96-102: connect has thrown; the catch answers 500 unless the headers
\* were already sent
SseConnectFailed(s) ==
    /\ sse[s].pc = "connect"
    /\ \E headersSent \in BOOLEAN :
          sse' = [sse EXCEPT ![s].pc = "failed",
                             ![s].status = IF headersSent THEN Some(200) ELSE Some(500)]
    /\ UNCHANGED <<transports, postReq>>
    /\ HttpUnchanged

\* the response of a GET /sse closes (the client disconnects, or the response
\* has ended): "close" is emitted once, and the listener of lines 91-94 runs
\* if it is registered by then
SseClose(s) ==
    /\ sse[s].pc \in {"connect", "open", "failed"} /\ ~sse[s].closed
    /\ sse' = [sse EXCEPT ![s].closed = TRUE]
    /\ transports' = IF sse[s].listening THEN TransportsDelete(transports, s)
                     ELSE transports
    /\ UNCHANGED postReq
    /\ HttpUnchanged

\* POST /messages, lines 109-129
PostMessage ==
    /\ postReq = None
    /\ \E q \in PostSessionIds : postReq' = Some(HandlePostMessage(transports, q))
    /\ UNCHANGED <<transports, sse>>
    /\ HttpUnchanged

\* lines 129-136: handlePostMessage of the transport has settled
PostSettle ==
    /\ IsSome(postReq) /\ Val(postReq).pc = "await"
    /\ \E outcome \in TransportOutcomes : postReq' = Some(AfterPostSettled(Val(postReq), outcome))
    /\ UNCHANGED <<transports, sse>>
    /\ HttpUnchanged

\* line 137: the handler of the POST has returned
PostReturn ==
    /\ IsSome(postReq) /\ Val(postReq).pc = "done"
    /\ postReq' = None
    /\ UNCHANGED <<transports, sse>>
    /\ HttpUnchanged

NextHttp ==
    \/ \E s \in SessionIds : SseRequest(s)
    \/ \E s \in SessionIds : SseConnected(s)
    \/ \E s \in SessionIds : SseConnectFailed(s)
    \/ \E s \in SessionIds : SseClose(s)
    \/ PostMessage \/ PostSettle \/ PostReturn

SpecHttp == Init /\ [][NextHttp]_vars

(* http-server: /api/tweet/ *)

\* lines 143-147: the handler calls fetchTweet(tweetId) and awaits it
RestRequest ==
    /\ restReq = None
    /\ \E id \in RestIds, f \in RestFormats :
          /\ restReq' = Some([tweetId |-> id, format |-> f, pc |-> "await",
                           responses |-> <<>>])
          /\ requests' = requests \o RequestsOnCall(0, id)
    /\ UNCHANGED <<transports, sse, postReq, pc, urls, fmt, i, inflight, started, outcomes,
                   results, out, numVars, tweetVars, blogVars, titleVars, feedVars,
                   toolVars>>

\* lines 147-167: the fetch settles and the handler writes its response
RestSettle ==
    /\ IsSome(restReq) /\ Val(restReq).pc = "await"
    /\ \E answer \in ToolAnswers :
          LET r == Val(restReq)
              outcome == FetchOutcome(r.tweetId, answer)
          IN  /\ IssuesRequest(r.tweetId) \/ answer.kind = "network"
              /\ requests' = requests \o RequestsOnSettle(0, r.tweetId, answer)
              /\ outcomes' = Append(outcomes, [index |-> 0, ok |-> outcome.ok,
                                               message |-> outcome.message])
              /\ tweet' = IF outcome.ok THEN Val(outcome.tweet) ELSE tweet
              /\ restReq' = Some([r EXCEPT
                                 !.pc = "done",
                                 !.responses =
                                     Append(r.responses,
                                            IF outcome.ok
                                            THEN RestResponse(Val(outcome.tweet), r.format)
                                            ELSE RestFailure(outcome))])
    /\ UNCHANGED <<transports, sse, postReq, md, pc, urls, fmt, i, inflight, started,
                   results, out, numVars, blogVars, titleVars, feedVars, toolVars>>

NextRest == RestRequest \/ RestSettle

SpecRest == Init /\ [][NextRest]_vars

-----------------------------------------------------------------------------
(* Properties *)

(* tweetsave_batch *)

\* C1: the fetches of a batch are begun in the order of the input urls, one at
\* a time: at most one fetch is in flight, and it is the one that follows the
\* fetches already settled (fetch k + 1 is not begun before fetch k settled).
BatchFetchesSequential ==
    /\ Cardinality(inflight) <= 1
    /\ started = [k \in 1..Len(started) |-> k]
    /\ Len(started) <= Len(urls)
    /\ Len(started) - Len(outcomes) \in {0, 1}
    /\ \A k \in inflight : k = Len(outcomes) + 1 /\ k = Len(started)

\* the second fetch is in flight after the first one failed
SecondFetchAfterFailure ==
    /\ inflight = {2} /\ Len(outcomes) = 1 /\ ~outcomes[1].ok
    /\ Len(requests) = 2 /\ requests[1].index = 1 /\ requests[2].index = 2

\* the indexes of the fetches settled with (ok = TRUE) or without a tweet
SettledIndexes(ok) ==
    LET hit == SelectSeq(outcomes, LAMBDA o : o.ok = ok)
    IN  [k \in 1..Len(hit) |-> hit[k].index]

\* C2: when the handler has returned, every input url was fetched exactly
\* once and has exactly one entry, in input order, a tweet if its fetch was
\* fulfilled and the rejection's message if not; the value returned is one
\* result, not flagged as an error, that holds every tweet and every error.
BatchIsolatesFailures ==
    pc = "done" =>
        LET okAt == SettledIndexes(TRUE)
            badAt == SettledIndexes(FALSE)
            res == Val(out)
        IN  /\ started = [k \in 1..Len(urls) |-> k]
            /\ Len(outcomes) = Len(urls) /\ Len(results) = Len(urls)
            /\ \A k \in 1..Len(urls) :
                  /\ outcomes[k].index = k
                  /\ results[k].url = urls[k]
                  /\ IsSome(results[k].tweet) = outcomes[k].ok
                  /\ IsSome(results[k].error) = ~outcomes[k].ok
                  /\ ~outcomes[k].ok => Val(results[k].error) = outcomes[k].message
            /\ IsSome(out) /\ ~res.isError
            /\ fmt = "json" =>
                  /\ Val(res.json).tweets
                        = [j \in 1..Len(okAt) |-> Val(results[okAt[j]].tweet)]
                  /\ Val(res.json).errors
                        = [j \in 1..Len(badAt) |->
                              [url |-> urls[badAt[j]], error |-> outcomes[badAt[j]].message]]
                  /\ Val(res.json).successful + Val(res.json).failed = Len(urls)
            /\ fmt = "markdown" =>
                  res.text
                    = tweetsToFeed([j \in 1..Len(okAt) |-> Val(results[okAt[j]].tweet)])
                      \o (IF Len(badAt) = 0 THEN <<>>
                          ELSE <<"\n", "\n", "## Errors", "\n", "\n">>
                               \o Concat([j \in 1..Len(badAt) |->
                                             <<"- ", urls[badAt[j]], ": ">>
                                             \o outcomes[badAt[j]].message \o <<"\n">>]))

\* a batch of three has returned: the first and the last fetch failed, the
\* second one succeeded
MixedBatchReturned ==
    /\ pc = "done" /\ Len(urls) = 3 /\ fmt = "json"
    /\ ~outcomes[1].ok /\ outcomes[2].ok /\ ~outcomes[3].ok
    /\ Val(Val(out).json).successful = 1 /\ Val(Val(out).json).failed = 2

(* tweetToMarkdown *)

\* the lines of the rendered document
MdLines == SplitLines(Val(md))

\* the positions of the lines that begin with the literal chunk marker
LinesWith(lines, marker) ==
    {j \in 1..Len(lines) : lines[j] # <<>> /\ lines[j][1] = marker}

\* the chunks that open the parts of the document, in the order of the contract
SectionMarkers ==
    <<"## @", "### Media", "### Poll", "### Quoted Tweet", "### Links", "---",
      "**Engagement**: ", "**Posted**: ", "**Hashtags**: ", "**Source**: ">>

\* C3: the parts of the document come in the fixed order header, raw text,
\* Media, Poll, Quoted Tweet, Links, rule and engagement line, Posted,
\* Hashtags, Source: the header is the first line, the text follows it, each
\* part occurs at most once and after the text, and of two parts present the
\* one earlier in the order comes first.
SectionsInFixedOrder ==
    IsSome(md) =>
        LET lines == MdLines
            textLines == SplitLines(tweet.text)
            at(n) == LinesWith(lines, SectionMarkers[n])
        IN  /\ at(1) = {1} /\ lines[2] = <<>>
            /\ SubSeq(lines, 3, 2 + Len(textLines)) = textLines
            /\ \A n \in 2..Len(SectionMarkers) :
                  /\ Cardinality(at(n)) <= 1
                  /\ \A j \in at(n) : j > 2 + Len(textLines)
            /\ \A n \in {1, 6, 7, 8, 10} : at(n) # {}
            /\ \A a, b \in 1..Len(SectionMarkers) :
                  a < b => \A j \in at(a), k \in at(b) : j < k
            /\ \A j \in at(6) : at(7) = {j + 1}
            /\ at(10) = {Len(lines)}

\* a record with every optional section has been rendered
AllSectionsRendered ==
    /\ IsSome(md)
    /\ NonEmptyList(tweet.media) /\ IsSome(tweet.poll) /\ IsSome(tweet.quoted_tweet)
    /\ NonEmptyList(tweet.urls) /\ NonEmptyList(tweet.hashtags)
    /\ \A n \in 1..Len(SectionMarkers) : LinesWith(MdLines, SectionMarkers[n]) # {}

\* lines without the section that opens with marker: its header line, the
\* lines after it up to the next empty line, and that empty line
WithoutSection(lines, marker) ==
    LET p == CHOOSE j \in LinesWith(lines, marker) : TRUE
        q == CHOOSE j \in (p + 1)..Len(lines) :
                lines[j] = <<>> /\ \A m \in (p + 1)..(j - 1) : lines[m] # <<>>
    IN  SubSeq(lines, 1, p - 1) \o SubSeq(lines, q + 1, Len(lines))

\* lines without the single line that opens with marker
WithoutLine(lines, marker) ==
    LET p == CHOOSE j \in LinesWith(lines, marker) : TRUE
    IN  SubSeq(lines, 1, p - 1) \o SubSeq(lines, p + 1, Len(lines))

\* C4: each optional section is in the document exactly when its data is
\* present, and the document of the same record without that data is the
\* same document without the section and the empty line that ends it (for
\* the hashtags, without the Hashtags line): no other line differs.
SectionPresentIffData ==
    IsSome(md) =>
        LET lines == MdLines
            has(marker) == LinesWith(lines, marker) # {}
            render(t) == SplitLines(tweetToMarkdown(t))
        IN  /\ has("### Media") = NonEmptyList(tweet.media)
            /\ has("### Poll") = IsSome(tweet.poll)
            /\ has("### Quoted Tweet") = IsSome(tweet.quoted_tweet)
            /\ has("### Links") = NonEmptyList(tweet.urls)
            /\ has("**Hashtags**: ") = NonEmptyList(tweet.hashtags)
            /\ NonEmptyList(tweet.media) =>
                  render([tweet EXCEPT !.media = None]) = WithoutSection(lines, "### Media")
            /\ IsSome(tweet.poll) =>
                  render([tweet EXCEPT !.poll = None]) = WithoutSection(lines, "### Poll")
            /\ IsSome(tweet.quoted_tweet) =>
                  render([tweet EXCEPT !.quoted_tweet = None])
                    = WithoutSection(lines, "### Quoted Tweet")
            /\ NonEmptyList(tweet.urls) =>
                  render([tweet EXCEPT !.urls = None]) = WithoutSection(lines, "### Links")
            /\ NonEmptyList(tweet.hashtags) =>
                  render([tweet EXCEPT !.hashtags = None])
                    = WithoutLine(lines, "**Hashtags**: ")

\* a record with media and a poll but no quoted tweet and no links has been
\* rendered: the Media and Poll headers are there, the other two are not
SomeSectionsRendered ==
    /\ IsSome(md)
    /\ NonEmptyList(tweet.media) /\ IsSome(tweet.poll)
    /\ ~IsSome(tweet.quoted_tweet) /\ ~NonEmptyList(tweet.urls)
    /\ LinesWith(MdLines, "### Media") # {} /\ LinesWith(MdLines, "### Poll") # {}
    /\ LinesWith(MdLines, "### Quoted Tweet") = {} /\ LinesWith(MdLines, "### Links") = {}

\* C6: the document rendered for a record whose created_at does not parse
\* never holds the text "Invalid Date" (formatDate fails instead).
NoInvalidDateRendered ==
    (IsSome(md) /\ ~tweet.created_at.timestamp) => ~Has(Val(md), "Invalid Date")

(* formatNumber *)

\* t tenths written with one decimal, a trailing ".0" stripped
TenthsToString(t) ==
    NumToString(t \div 10) \o (IF t % 10 = 0 THEN <<>> ELSE <<".", Digit(t % 10)>>)

\* t / 10 is n / d rounded to one decimal: no other multiple of 1/10 is nearer
IsRoundedTenths(t, n, d) ==
    LET diff == 10 * n - t * d
    IN  2 * (IF diff < 0 THEN -diff ELSE diff) <= d

\* C5: for n >= 1,000,000 the result is n / 1,000,000 rounded to one decimal,
\* a trailing ".0" stripped, followed by M; else for n >= 1,000 the same
\* with 1,000 and K; otherwise the decimal integer string.  999 -> 999,
\* 1000 -> 1K, 1500 -> 1.5K, 1000000 -> 1M, 2500000 -> 2.5M.
FormatNumberRule ==
    IsSome(numStr) =>
        LET str == Val(numStr)
            abbreviated(d, suffix) ==
                \E t \in {(10 * num) \div d, (10 * num) \div d + 1} :
                    IsRoundedTenths(t, num, d) /\ str = TenthsToString(t) \o <<suffix>>
        IN  /\ IF num >= 1000000 THEN abbreviated(1000000, "M")
               ELSE IF num >= 1000 THEN abbreviated(1000, "K")
               ELSE str = NumToString(num)
            /\ num = 999 => str = <<"9", "9", "9">>
            /\ num = 1000 => str = <<"1", "K">>
            /\ num = 1500 => str = <<"1", ".", "5", "K">>
            /\ num = 1000000 => str = <<"1", "M">>
            /\ num = 2500000 => str = <<"2", ".", "5", "M">>

\* 2500000 has been formatted as 2.5M
MillionsFormatted == num = 2500000 /\ numStr = Some(<<"2", ".", "5", "M">>)

(* tweetToBlogPost *)

\* the number of maximal runs of non-whitespace characters of s
TokenCount(s) ==
    Cardinality({k \in 1..Len(s) : s[k] \notin Space /\ (k = 1 \/ s[k - 1] \in Space)})

\* C7: word_count is the number of whitespace-separated tokens of content.
WordCountIsTokenCount ==
    IsSome(blog) => Val(blog).word_count = TokenCount(Val(blog).content)

\* C8: read_time_minutes = max(1, ceil(word_count / 200)): it is 1 for a word
\* count of at most 200, otherwise the least m with word_count <= 200 m, and
\* it is 3 for a word count of 450.
ReadTimeRule ==
    IsSome(blog) =>
        LET wc == Val(blog).word_count
            rt == Val(blog).read_time_minutes
        IN  /\ rt >= 1
            /\ wc <= 200 => rt = 1
            /\ wc > 200 => 200 * (rt - 1) < wc /\ wc <= 200 * rt
            /\ wc = 450 => rt = 3

\* a Blog Post of 450 words has been built, with a read time of 3 minutes
LongPostBuilt ==
    IsSome(blog) /\ Val(blog).word_count = 450 /\ Val(blog).read_time_minutes = 3

(* generateTitle *)

\* C9: the title is exactly "A Thread on X" whenever the cleaned text is
\* shorter than 10 characters; when the cleaned text has 10 or more, the
\* fallback rule is not taken: the title is "A Thread on X" only if the
\* cleaned text itself begins with these words.
TitleFallbackRule ==
    IsSome(title) =>
        LET c == CleanTitleText(text)
        IN  /\ Len(c) < 10 => Val(title) = GenericTitle
            /\ (Len(c) >= 10 /\ Val(title) = GenericTitle)
                  => Slice0(c, Len(GenericTitle)) = GenericTitle

\* "@a #b" has been given the fallback title
FallbackTitleGiven == text = TextMentionTag /\ title = Some(GenericTitle)

\* the text of c up to and including its first ".", "!" or "?", all of c when
\* it holds none
UpToFirstTerminator(c) ==
    LET ends == {k \in 1..Len(c) : c[k] \in Terminator}
    IN  IF ends = {} THEN c ELSE SubSeq(c, 1, Min(ends))

\* C10, as stated: for every cleaned text of at least 10 characters, the text
\* up to and including the first terminator is returned, trimmed, whenever it
\* is at most 80 characters long.
FirstSentenceAlways ==
    IsSome(title) =>
        LET c == CleanTitleText(text)
        IN  (Len(c) >= 10 /\ Len(UpToFirstTerminator(c)) <= 80)
              => Val(title) = Trim(UpToFirstTerminator(c))

\* C10, amended: the same for every cleaned text of at least 10 characters
\* that does not begin with ".", "!" or "?"; "Hello world. More text here."
\* yields "Hello world.".
FirstSentenceRule ==
    IsSome(title) =>
        LET c == CleanTitleText(text)
        IN  /\ (Len(c) >= 10 /\ c[1] \notin Terminator
                   /\ Len(UpToFirstTerminator(c)) <= 80)
                  => Val(title) = Trim(UpToFirstTerminator(c))
            /\ text = TextHello
                  => Val(title) = <<"H", "e", "l", "l", "o", " ", "w", "o", "r", "l", "d", ".">>

\* a first sentence of exactly 80 characters has been returned whole, out of
\* a longer text
LongSentenceReturned ==
    /\ IsSome(title) /\ Len(Val(title)) = 80
    /\ Len(CleanTitleText(text)) > 80
    /\ Val(title) = UpToFirstTerminator(CleanTitleText(text))

\* the first-sentence rule does not apply to the cleaned text c: c begins with
\* a terminator, or its first sentence is longer than 80 characters
NoFirstSentence(c) == c[1] \in Terminator \/ Len(UpToFirstTerminator(c)) > 80

\* C11: when the first-sentence rule does not apply and the cleaned text is
\* longer than 60 characters, the title is cut at the last space of the first
\* 60 characters if that space is at index 30 or later (an index from 0, a
\* space exactly at 30 included): the text before the space, then "...";
\* otherwise the first 60 characters, then "...".
TruncationAtOrAfter30 ==
    IsSome(title) =>
        LET c == CleanTitleText(text)
            prefix == Slice0(c, 60)
            sp == LastIndexOfSpace(prefix)
        IN  (Len(c) > 60 /\ NoFirstSentence(c)) =>
                Val(title) = IF sp >= 30 THEN Slice0(prefix, sp) \o Ellipsis
                             ELSE prefix \o Ellipsis

\* C12: the title is never empty and is at most 80 characters long, for every
\* text: empty, made only of urls, mentions or hashtags, begun by a
\* terminator, or longer than any rule's limit.
TitleWithinBounds ==
    IsSome(title) => Len(Val(title)) >= 1 /\ Len(Val(title)) <= 80

\* a text that begins with "?" has been given a title: the text itself
TerminatorTextTitled ==
    /\ text = TextQuestion /\ IsSome(title)
    /\ Val(title) = TextQuestion /\ Len(Val(title)) \in 1..80

(* tweetToBlogPost: comments and media *)

\* the options of the call, with the defaults of line 101
IncludeRepliesGiven == IF IsSome(opts.includeReplies) THEN Val(opts.includeReplies) ELSE TRUE
MaxRepliesGiven == IF IsSome(opts.maxReplies) THEN Val(opts.maxReplies) ELSE 10

\* the comment a reply is projected to
CommentOf(reply) ==
    [author |-> reply.name, username |-> reply.username, text |-> reply.text,
     likes |-> reply.likes, timestamp |-> formatDate(reply.created_at)]

\* C13: the comments field is present only when include_replies is true and
\* replies were supplied: with include_replies false, or with an empty reply
\* sequence, the Blog Post returned has no comments field.
CommentsOnlyWhenSupplied ==
    IsSome(blog) =>
        ((~IncludeRepliesGiven \/ replies = <<>>) => ~IsSome(Val(blog).comments))

\* C14: when comments are built they are the projection of the first
\* min(max_replies, number of replies) replies, in input order, and so hold
\* at most max_replies entries, for every integer max_replies (read for a
\* negative max_replies as: no entry).
CommentsAreFirstMaxReplies ==
    (IsSome(blog) /\ IsSome(Val(blog).comments)) =>
        LET comments == Val(Val(blog).comments)
            limit == IF MaxRepliesGiven > 0 THEN MaxRepliesGiven ELSE 0
            n == IF limit < Len(replies) THEN limit ELSE Len(replies)
        IN  /\ Len(comments) <= limit
            /\ comments = [k \in 1..n |-> CommentOf(replies[k])]

\* C15: images holds the urls of the photo items and videos the urls of the
\* video and animated_gif items, each in the order of the media; every media
\* item is in exactly one of the two lists; featured_image is the first image,
\* absent when there is none.
MediaPartitioned ==
    IsSome(blog) =>
        LET media == IF IsSome(tweet.media) THEN Val(tweet.media) ELSE <<>>
            all == [k \in 1..Len(media) |-> media[k].url]
            photoAt == {k \in 1..Len(media) : media[k].type = "photo"}
            videoAt == {k \in 1..Len(media) : media[k].type \in {"video", "animated_gif"}}
            post == Val(blog)
        IN  /\ post.images = Keep(all, photoAt)
            /\ post.videos = Keep(all, videoAt)
            /\ Len(post.images) + Len(post.videos) = Len(media)
            /\ \A k \in 1..Len(media) :
                  Has(post.images, media[k].url) # Has(post.videos, media[k].url)
            /\ post.featured_image
                  = IF post.images = <<>> THEN None ELSE Some(post.images[1])

\* a post with a photo, a video, a gif and a second photo has been converted
MixedMediaPartitioned ==
    /\ IsSome(blog) /\ IsSome(tweet.media) /\ Len(Val(tweet.media)) = 4
    /\ Val(blog).images = <<"p1.jpg", "p2.jpg">>
    /\ Val(blog).videos = <<"v2.mp4", "g1.mp4">>
    /\ Val(blog).featured_image = Some("p1.jpg")

(* tweetsToFeed *)

\* the feed document of no post
EmptyFeedDocument ==
    <<"# Tweet Feed", "\n", "\n", "*", "0", " tweets*", "\n", "\n", "---", "\n">>

\* C16: the document is the "# Tweet Feed" header, an empty line, the count
\* line "*n tweets*", an empty line, a rule, then for each post in input order
\* an empty line, its tweetToMarkdown rendering, an empty line and a rule; for
\* the empty sequence it is the document of 0 tweets, with no post section.
FeedDocumentRule ==
    IsSome(feed) =>
        LET n == Len(feedTweets)
            head == <<"# Tweet Feed", "\n", "\n", "*">> \o NumToString(n)
                    \o <<" tweets*", "\n", "\n", "---", "\n">>
            post(k) == <<"\n">> \o tweetToMarkdown(feedTweets[k])
                       \o <<"\n", "\n", "---", "\n">>
        IN  /\ Val(feed) = head \o Concat([k \in 1..n |-> post(k)])
            /\ n = 0 => Val(feed) = EmptyFeedDocument /\ ~Has(Val(feed), "## @")
            /\ Cardinality({j \in 1..Len(Val(feed)) : Val(feed)[j] = "## @"}) = n

\* a feed of two different posts has been rendered, the first post first
TwoPostFeedRendered ==
    /\ IsSome(feed) /\ Len(feedTweets) = 2 /\ feedTweets[1] # feedTweets[2]
    /\ Has(Val(feed), " tweets*") /\ Has(Val(feed), "2")
    /\ \E a, b \in 1..Len(Val(feed)) :
          /\ a < b
          /\ SubSeq(Val(feed), a, a + Len(tweetToMarkdown(feedTweets[1])) - 1)
                = tweetToMarkdown(feedTweets[1])
          /\ SubSeq(Val(feed), b, b + Len(tweetToMarkdown(feedTweets[2])) - 1)
                = tweetToMarkdown(feedTweets[2])

(* tweetsave_to_blog *)

\* C17: when the handler has returned a Blog Post, its engagement is likes,
\* retweets and replies 0 with no views if include_engagement is false,
\* whatever the counters of the fetched post, and the likes, retweets, replies
\* and views of the fetched post if it is true; the JSON output carries that
\* Blog Post.
EngagementFollowsOption ==
    (toolPc = "done" /\ ~Val(toolOut).isError) =>
        LET e == Val(blog).engagement
        IN  /\ IF Val(params).include_engagement
               THEN /\ e.likes = tweet.likes /\ e.retweets = tweet.retweets
                    /\ e.replies = tweet.replies /\ e.views = tweet.views
               ELSE /\ e.likes = 0 /\ e.retweets = 0 /\ e.replies = 0
                    /\ ~IsSome(e.views)
            /\ Val(params).response_format = "json" => Val(toolOut).json = blog

\* a post of 12 likes and 1500 views has been converted without engagement
EngagementZeroed ==
    /\ toolPc = "done" /\ ~Val(toolOut).isError
    /\ ~Val(params).include_engagement /\ Val(params).response_format = "json"
    /\ tweet.likes = 12 /\ tweet.views = Some(1500)
    /\ Val(Val(toolOut).json).engagement
          = [likes |-> 0, retweets |-> 0, replies |-> 0, views |-> None]

(* tweetToMarkdown: the poll section *)

\* the line of the "### Poll" header in the rendered document
PollHeaderAt == CHOOSE j \in LinesWith(MdLines, "### Poll") : TRUE

\* the option line and the bar line of option k of the poll
PollOptionLine(k) == MdLines[PollHeaderAt + 2 * k - 1]
PollBarLine(k) == MdLines[PollHeaderAt + 2 * k]

\* C18: the bar of each poll option is "  [", then round(percentage / 5)
\* characters "=", then "]" (percentages are in tenths of a percent, halves
\* round up): 100% gives 20 characters and 47% gives 9.
PollBarRule ==
    (IsSome(md) /\ IsSome(tweet.poll)) =>
        \A k \in 1..Len(Val(tweet.poll).options) :
            LET bar == PollBarLine(k)
                n == Cardinality({j \in 1..Len(bar) : bar[j] = "="})
                pct == Val(tweet.poll).options[k].percentage
            IN  /\ bar = <<"  [">> \o [j \in 1..n |-> "="] \o <<"]">>
                /\ 50 * n - 25 <= pct /\ pct < 50 * n + 25
                /\ pct = 1000 => n = 20
                /\ pct = 470 => n = 9

\* a poll with an option at 47% and one at 53% has been rendered with bars of
\* 9 and 11 characters
PollBarsRendered ==
    /\ IsSome(md) /\ IsSome(tweet.poll)
    /\ Val(tweet.poll).options[1].percentage = 470
    /\ Val(tweet.poll).options[2].percentage = 530
    /\ PollBarLine(1) = <<"  [">> \o [j \in 1..9 |-> "="] \o <<"]">>
    /\ PollBarLine(2) = <<"  [">> \o [j \in 1..11 |-> "="] \o <<"]">>

\* C19: the line of each poll option shows the label, the percentage rounded
\* to an integer and the formatted vote count, for every percentage, the
\* non-integer ones included.
PollPercentageRounded ==
    (IsSome(md) /\ IsSome(tweet.poll)) =>
        \A k \in 1..Len(Val(tweet.poll).options) :
            LET option == Val(tweet.poll).options[k]
            IN  PollOptionLine(k)
                  = <<"- ", option.label, ": ">>
                    \o NumToString((option.percentage + 5) \div 10)
                    \o <<"% (">> \o formatNumber(option.votes) \o <<" votes)">>

(* fetchTweet *)

\* the requests issued by call k of fetchTweet
RequestsOf(k) == SelectSeq(requests, LAMBDA r : r.index = k)

\* C20: no call of fetchTweet issues more than one upstream request: a call
\* whose input holds a tweet id issues exactly one, to the primary API, and
\* when it has failed (not found, rate limited, transport error, error code
\* in the body) there is still that one request and none to the backup API;
\* a call whose input holds no id issues none.
NoAutomaticRetry ==
    /\ \A j \in 1..Len(requests) :
          requests[j].api = FXTWITTER_API /\ requests[j].index \in 1..Len(started)
    /\ \A k \in 1..Len(started) :
          Len(RequestsOf(k)) = IF IssuesRequest(urls[k]) THEN 1 ELSE 0
    /\ \A j \in 1..Len(outcomes) :
          ~outcomes[j].ok => Len(RequestsOf(outcomes[j].index)) <= 1

\* the first fetch of a batch was rate limited and its error is recorded: one
\* request was issued for it, and the only other request is that of the second
\* fetch, which was not found
FailuresNotRetried ==
    /\ Len(outcomes) = 2 /\ ~outcomes[1].ok /\ ~outcomes[2].ok
    /\ outcomes[1].message = <<"Rate limit exceeded. Please wait and try again.">>
    /\ outcomes[2].message = <<"Tweet not found: ", "1234567891">>
    /\ Len(requests) = 2 /\ Len(RequestsOf(1)) = 1 /\ Len(RequestsOf(2)) = 1
    /\ Len(results) = 2 /\ IsSome(results[1].error)

(* the single-item tools *)

\* the string part occurs in the string whole
Contains(whole, part) ==
    \E a \in 1..(Len(whole) - Len(part) + 1) : SubSeq(whole, a, a + Len(part) - 1) = part

\* the words with which each tool begins its error text
ErrorHeaders ==
    {<<"Error fetching tweet: ">>, <<"Error fetching thread: ">>,
     <<"Error converting to blog: ">>, <<"Error extracting media: ">>}

\* C21: when a single-item handler has ended, it has returned a value; if
\* the fetch failed (invalid url or id, not found, rate limited, transport
\* error, error body), the value is flagged as an error, its text is the
\* tool's error header followed by the failure's message, and nothing was
\* rendered: no JSON, no Markdown, no Blog Post, no feed.  If the fetch
\* succeeded the value is not flagged.
ToolSurfacesFailure ==
    toolPc = "done" =>
        /\ IsSome(toolOut) /\ Len(outcomes) = 1
        /\ Val(toolOut).isError = ~outcomes[1].ok
        /\ ~outcomes[1].ok =>
              /\ Contains(Val(toolOut).text, outcomes[1].message)
              /\ \E h \in ErrorHeaders :
                    SubSeq(Val(toolOut).text, 1, 1 + Len(outcomes[1].message))
                      = h \o outcomes[1].message
              /\ Val(toolOut).json = None
              /\ tweet = None /\ md = None /\ blog = None /\ blogMd = None /\ feed = None
              /\ ~Has(Val(toolOut).text, "## @") /\ ~Has(Val(toolOut).text, "# Tweet Feed")

\* tweetsave_get_tweet was rate limited and has returned the error text
RateLimitSurfaced ==
    /\ toolPc = "done" /\ Val(params).tool = "tweetsave_get_tweet"
    /\ Len(outcomes) = 1 /\ ~outcomes[1].ok
    /\ Val(toolOut).isError
    /\ SubSeq(Val(toolOut).text, 1, 2)
          = <<"Error fetching tweet: ", "Rate limit exceeded. Please wait and try again.">>

(* generateTitle: the leading mentions *)

\* C23: for every text that, once its urls are removed and the whitespace
\* around it is ignored, begins with one or more @mentions, the title holds
\* none of the mentions of that leading run: when the text has no "@" after
\* the run, the title has no "@" at all.
LeadingMentionsStripped ==
    IsSome(title) =>
        LET t == Trim(RemoveUrls(text))
            runEnd == MentionRunEnd(t, 1)
        IN  (runEnd >= 1 /\ ~Has(SubSeq(t, runEnd + 1, Len(t)), "@"))
                => ~Has(Val(title), "@")

(* the views figure *)

\* the engagement line of the document rendered by tweetToMarkdown
EngagementLine ==
    MdLines[CHOOSE j \in LinesWith(MdLines, "**Engagement**: ") : TRUE]

\* C24: the views are shown exactly when the record has a views value, 0
\* included: the engagement line of tweetToMarkdown ends with the formatted
\* views segment, and the Engagement section of blogPostToMarkdown has a
\* Views bullet, if and only if the value is present.
ViewsShownIffPresent ==
    /\ (toolPc = "done" /\ IsSome(md)) =>
          LET n == Len(EngagementLine)
          IN  IF IsSome(tweet.views)
              THEN /\ EngagementLine[n] = " views"
                   /\ Contains(EngagementLine,
                               <<" | ">> \o formatNumber(Val(tweet.views)) \o <<" views">>)
              ELSE ~Has(EngagementLine, " views")
    /\ (toolPc = "done" /\ IsSome(blogMd)) =>
          LET lines == SplitLines(Val(blogMd))
              views == Val(blog).engagement.views
          IN  IF IsSome(views)
              THEN \E j \in 1..Len(lines) :
                      lines[j] = <<"- **Views**: ">> \o formatNumber(Val(views))
              ELSE LinesWith(lines, "- **Views**: ") = {}

(* tweetToMarkdown: the video items *)

\* the lines a video item is to be rendered as: the link, a duration suffix
\* only if it has a duration, a thumbnail embed only if it has a thumbnail
VideoLinesWanted(m) ==
    << <<"- [Video](", m.url>>
       \o (IF IsSome(m.duration_ms)
           THEN <<") (">> \o NumToString(RoundDiv(Val(m.duration_ms), 1000)) \o <<"s", ")">>
           ELSE <<")">>) >>
    \o (IF IsSome(m.thumbnail_url)
        THEN << <<"  ![Thumbnail](", Val(m.thumbnail_url), ")">> >>
        ELSE <<>>)

\* C25: each video item of the media section is rendered as its link line,
\* with a duration suffix only when the item has a duration, followed by a
\* thumbnail line only when the item has a thumbnail url; a video without a
\* duration gives a link line with nothing after the link.
VideoSuffixOnlyWithDuration ==
    (IsSome(md) /\ NonEmptyList(tweet.media)) =>
        LET lines == MdLines
            videos == SelectSeq(Val(tweet.media), LAMBDA m : m.type = "video")
            at == LinesWith(lines, "- [Video](")
            pos(k) == CHOOSE j \in at : Cardinality({m \in at : m < j}) = k - 1
        IN  /\ Cardinality(at) = Len(videos)
            /\ \A k \in 1..Len(videos) :
                  LET wanted == VideoLinesWanted(videos[k])
                  IN  /\ SubSeq(lines, pos(k), pos(k) + Len(wanted) - 1) = wanted
                      /\ LinesWith(<<lines[pos(k) + Len(wanted)]>>, "  ![Thumbnail](") = {}

(* http-server: POST /messages *)

\* C26: a POST /messages is handed to a transport only if its sessionId is a
\* key of the transports map at that moment, and then to the transport stored
\* under that key; without a sessionId it is answered 400, with a sessionId
\* that is not a key it is answered 404, and in both cases no transport is
\* invoked.
MessagesRoutedByKey ==
    [][(postReq = None /\ postReq' # None) =>
          LET p == Val(postReq')
              keys == TransportsKeys(transports)
              without == ~IsSome(p.sessionId) \/ Val(p.sessionId) = ""
          IN  /\ IsSome(p.delegated) =>
                    /\ ~without /\ Val(p.sessionId) \in keys
                    /\ <<Val(p.sessionId), Val(p.delegated)>> \in transports
              /\ without => (p.status = Some(400) /\ ~IsSome(p.delegated))
              /\ (~without /\ Val(p.sessionId) \notin keys) =>
                    (p.status = Some(404) /\ ~IsSome(p.delegated))]_vars

(* http-server: GET /sse *)

\* C27: once the response of a GET /sse has closed, the transports map holds
\* no entry for its session, whether the close came before or after the end
\* of the connect step (so that a later POST /messages for it finds none).
ClosedSessionsRemoved ==
    \A s \in SessionIds : sse[s].closed => s \notin TransportsKeys(transports)

\* C28: when connecting the MCP server to the transport has thrown, the
\* transports map holds no entry for the session of the failed request.
FailedConnectUnregistered ==
    \A s \in SessionIds : sse[s].pc = "failed" => s \notin TransportsKeys(transports)

(* http-server: /api/tweet/ *)

\* C30: a request to /api/tweet/ is answered once, after its fetch has
\* settled.  A fetched tweet is answered 200: its Markdown rendering for
\* format=markdown, the Markdown of its Blog Post for format=blog, and the
\* tweet as JSON for any other format or none.  A failed fetch is answered
\* 404 with a JSON body that carries the message of the failure, whatever
\* the failure is.
RestAnswersOnce ==
    IsSome(restReq) =>
        LET r == Val(restReq)
            res == r.responses[1]
            markdown == "text/markdown; charset=utf-8"
        IN  /\ Len(r.responses) = (IF r.pc = "done" THEN 1 ELSE 0)
            /\ r.pc = "done" =>
                  /\ Len(outcomes) = 1
                  /\ outcomes[1].ok =>
                        /\ res.status = 200
                        /\ r.format = Some("markdown") =>
                              /\ res.contentType = markdown /\ res.json = None
                              /\ res.text = tweetToMarkdown(tweet)
                              /\ res.text[1] = "## @"
                        /\ r.format = Some("blog") =>
                              /\ res.contentType = markdown /\ res.json = None
                              /\ res.text = blogPostToMarkdown(
                                                tweetToBlogPost(tweet, <<>>, RestBlogOptions))
                              /\ res.text[1] = "# "
                        /\ r.format \notin {Some("markdown"), Some("blog")} =>
                              /\ res.contentType = "application/json"
                              /\ res.json = Some([tweet |-> tweet]) /\ res.text = <<>>
                  /\ ~outcomes[1].ok =>
                        /\ res.status = 404 /\ res.contentType = "application/json"
                        /\ outcomes[1].message # <<>>
                        /\ res.json = Some([error |-> outcomes[1].message])
                        /\ res.text = <<>>

\* a rate-limited request for the blog format has been answered 404 with the
\* message of the failure
RestRateLimitAnswered ==
    /\ IsSome(restReq) /\ Val(restReq).pc = "done" /\ Val(restReq).format = Some("blog")
    /\ Len(outcomes) = 1 /\ ~outcomes[1].ok
    /\ Val(restReq).responses
          = << [status |-> 404, contentType |-> "application/json", text |-> <<>>,
                json |-> Some([error |->
                                  <<"Rate limit exceeded. Please wait and try again.">>])] >>

(* tweetsave_batch: the counts *)

\* C29: when the handler has returned, the JSON output has total = the
\* number of input urls, successful = the number of fetches fulfilled, failed
\* = the number of fetches rejected, so total = successful + failed, whatever
\* the outcomes and the messages of the rejections; the count line of the
\* Markdown feed shows the number of fetches fulfilled, and the feed holds
\* that many posts.
BatchCountsAddUp ==
    pc = "done" =>
        LET fulfilled == Len(SelectSeq(outcomes, LAMBDA o : o.ok))
            res == Val(out)
        IN  /\ fmt = "json" =>
                  /\ Val(res.json).total = Len(urls)
                  /\ Val(res.json).successful = fulfilled
                  /\ Val(res.json).failed = Len(urls) - fulfilled
                  /\ Val(res.json).total = Val(res.json).successful + Val(res.json).failed
                  /\ Len(Val(res.json).tweets) = Val(res.json).successful
                  /\ Len(Val(res.json).errors) = Val(res.json).failed
            /\ fmt = "markdown" =>
                  /\ SplitLines(res.text)[3]
                        = <<"*">> \o NumToString(fulfilled) \o <<" tweets*">>
                  /\ Cardinality({j \in 1..Len(res.text) : res.text[j] = "## @"}) = fulfilled
                  /\ Cardinality({j \in 1..Len(res.text) : res.text[j] = "- "})
                        = Len(urls) - fulfilled

\* a batch of two has returned as JSON: the first fetch was answered an error
\* body without a usable message, the second one succeeded
DefaultMessageCounted ==
    /\ pc = "done" /\ fmt = "json" /\ Len(urls) = 2
    /\ ~outcomes[1].ok /\ outcomes[1].message = <<"Tweet not found">>
    /\ outcomes[2].ok
    /\ Val(Val(out).json).total = 2
    /\ Val(Val(out).json).successful = 1 /\ Val(Val(out).json).failed = 1

=============================================================================
